---- MODULE Spec2Model ----
(***************************************************************************)
(* CueSynch: CSV timecode log -> markers -> BWF/WAV byte stream.           *)
(*                                                                         *)
(* A JavaScript string is modelled as a sequence of characters, each       *)
(* character being a one-element TLA+ string ("A", ":", "\n"); the three   *)
(* non-ASCII characters of the input alphabet are named "Aring" (U+00C5),  *)
(* "euro" (U+20AC) and "grin" (U+1F600); U+0060 is named "grave", and     *)
(* "aring" (U+00E5) is the lower case of "Aring".                          *)
(* A JavaScript number is modelled as an exact reduced fraction [n, d]     *)
(* (d > 0); NaN is its own value.                                          *)
(* A Buffer is modelled by its length and its non-zero bytes.              *)
(***************************************************************************)
EXTENDS Integers, Sequences, FiniteSets, TLC

----------------------------------------------------------------------------
(* Bounds of the model *)

\* largest number of data rows of a generated CSV text
MaxRows == 2

\* largest number of times one encoder is run on the extracted markers
MaxRuns == 2

\* largest number of ':'-separated parts of a time text given to parseTime
MaxParts == 5

\* largest number of characters of a line given to parseCSVLine
MaxLine == 5

----------------------------------------------------------------------------
(* Characters *)

\* the printable ASCII characters in code order, U+0020 .. U+007E
Ascii ==
  <<" ", "!", "\"", "#", "$", "%", "&", "'", "(", ")", "*", "+", ",", "-",
    ".", "/", "0", "1", "2", "3", "4", "5", "6", "7", "8", "9", ":", ";",
    "<", "=", ">", "?", "@", "A", "B", "C", "D", "E", "F", "G", "H", "I",
    "J", "K", "L", "M", "N", "O", "P", "Q", "R", "S", "T", "U", "V", "W",
    "X", "Y", "Z", "[", "\\", "]", "^", "_", "grave", "a", "b", "c", "d",
    "e",
    "f", "g", "h", "i", "j", "k", "l", "m", "n", "o", "p", "q", "r", "s",
    "t", "u", "v", "w", "x", "y", "z", "{", "|", "}", "~">>

\* Unicode code point of every character of the alphabet
CodePoint ==
  [c \in {Ascii[i] : i \in 1..Len(Ascii)} |->
      31 + (CHOOSE i \in 1..Len(Ascii) : Ascii[i] = c)]
  @@ ("\n" :> 10) @@ ("\r" :> 13) @@ ("\t" :> 9)
  @@ ("Aring" :> 197) @@ ("aring" :> 229) @@ ("euro" :> 8364)
  @@ ("grin" :> 128512)

\* UTF-8 encoding of one code point, as Buffer.write / Buffer.byteLength use
Utf8OfCodePoint(cp) ==
  IF cp < 128 THEN <<cp>>
  ELSE IF cp < 2048 THEN <<192 + (cp \div 64), 128 + (cp % 64)>>
  ELSE IF cp < 65536
    THEN <<224 + (cp \div 4096), 128 + ((cp \div 64) % 64), 128 + (cp % 64)>>
    ELSE <<240 + (cp \div 262144), 128 + ((cp \div 4096) % 64),
           128 + ((cp \div 64) % 64), 128 + (cp % 64)>>

\* UTF-8 bytes of a string
RECURSIVE Utf8Bytes(_)
Utf8Bytes(s) ==
  IF s = <<>> THEN <<>>
  ELSE Utf8OfCodePoint(CodePoint[Head(s)]) \o Utf8Bytes(Tail(s))

\* Buffer.byteLength(s, 'utf8')
ByteLength(s) == Len(Utf8Bytes(s))

\* String.prototype.length: the number of UTF-16 code units
RECURSIVE StringLength(_)
StringLength(s) ==
  IF s = <<>> THEN 0
  ELSE (IF CodePoint[Head(s)] < 65536 THEN 1 ELSE 2) + StringLength(Tail(s))

----------------------------------------------------------------------------
(* Strings *)

IsSpace(c) == c \in {" ", "\n", "\r", "\t"}

RECURSIVE TrimStart(_)
TrimStart(s) ==
  IF s # <<>> /\ IsSpace(Head(s)) THEN TrimStart(Tail(s)) ELSE s

RECURSIVE TrimEnd(_)
TrimEnd(s) ==
  IF s # <<>> /\ IsSpace(s[Len(s)])
  THEN TrimEnd(SubSeq(s, 1, Len(s) - 1)) ELSE s

\* String.prototype.trim
Trim(s) == TrimEnd(TrimStart(s))

\* String.prototype.includes for a one-character needle
Includes(s, c) == \E i \in 1..Len(s) : s[i] = c

\* String.prototype.split for a one-character separator
RECURSIVE Split(_, _)
Split(s, sep) ==
  IF Includes(s, sep)
  THEN LET i == CHOOSE k \in 1..Len(s) :
                  s[k] = sep /\ \A j \in 1..(k - 1) : s[j] # sep
       IN  <<SubSeq(s, 1, i - 1)>> \o Split(SubSeq(s, i + 1, Len(s)), sep)
  ELSE <<s>>

\* String.prototype.includes for a needle of any length
IncludesString(s, needle) ==
  \E i \in 0..(Len(s) - Len(needle)) :
     SubSeq(s, i + 1, i + Len(needle)) = needle

\* String.prototype.toLowerCase, one character
LowerChar(c) ==
  IF c = "Aring" THEN "aring"
  ELSE IF CodePoint[c] >= 65 /\ CodePoint[c] <= 90
  THEN Ascii[CodePoint[c] - 31 + 32]
  ELSE c

\* String.prototype.toLowerCase
toLowerCase(s) == [i \in 1..Len(s) |-> LowerChar(s[i])]

\* Array.prototype.join
RECURSIVE Join(_, _)
Join(parts, sep) ==
  IF parts = <<>> THEN <<>>
  ELSE IF Len(parts) = 1 THEN parts[1]
  ELSE parts[1] \o sep \o Join(Tail(parts), sep)

----------------------------------------------------------------------------
(* Numbers *)

NaN == [nan |-> TRUE]
NULL == [null |-> TRUE]

Abs(x) == IF x < 0 THEN -x ELSE x

RECURSIVE GCD(_, _)
GCD(a, b) == IF b = 0 THEN a ELSE GCD(b, a % b)

\* the number n/d (d > 0) as a reduced fraction
Num(n, d) ==
  LET g == GCD(Abs(n), d) IN [n |-> n \div g, d |-> d \div g]

NumAdd(a, b) == Num(a.n * b.d + b.n * a.d, a.d * b.d)
NumMul(a, b) == Num(a.n * b.n, a.d * b.d)
\* a / b for b > 0
NumDiv(a, b) == Num(a.n * b.d, a.d * b.n)
NumLess(a, b) == a.n * b.d < b.n * a.d
Whole(k) == Num(k, 1)

\* Math.floor and Math.ceil
Floor(a) == a.n \div a.d
Ceil(a) == -((-a.n) \div a.d)

\* Math.round(a * k) in place of Math.floor(a * k)
RoundTimes(a, k) ==
  (a.n \div a.d) * k + ((2 * ((a.n % a.d) * k) + a.d) \div (2 * a.d))

\* Math.floor(a * k) for an integer k > 0, computed without forming a.n * k
FloorTimes(a, k) ==
  (a.n \div a.d) * k + (((a.n % a.d) * k) \div a.d)

isNaN(x) == x = NaN

DigitVal ==
  "0" :> 0 @@ "1" :> 1 @@ "2" :> 2 @@ "3" :> 3 @@ "4" :> 4 @@
  "5" :> 5 @@ "6" :> 6 @@ "7" :> 7 @@ "8" :> 8 @@ "9" :> 9

IsDigit(c) == c \in DOMAIN DigitVal

\* the longest prefix of s made of decimal digits
RECURSIVE DigitPrefix(_)
DigitPrefix(s) ==
  IF s # <<>> /\ IsDigit(Head(s))
  THEN <<Head(s)>> \o DigitPrefix(Tail(s)) ELSE <<>>

RECURSIVE DigitsValue(_)
DigitsValue(ds) ==
  IF ds = <<>> THEN 0
  ELSE DigitsValue(SubSeq(ds, 1, Len(ds) - 1)) * 10 + DigitVal[ds[Len(ds)]]

RECURSIVE Pow10(_)
Pow10(k) == IF k = 0 THEN 1 ELSE 10 * Pow10(k - 1)

HexVal ==
  DigitVal @@ [c \in {"a", "A"} |-> 10] @@ [c \in {"b", "B"} |-> 11]
  @@ [c \in {"c", "C"} |-> 12] @@ [c \in {"d", "D"} |-> 13]
  @@ [c \in {"e", "E"} |-> 14] @@ [c \in {"f", "F"} |-> 15]

\* the longest prefix of s made of hexadecimal digits
RECURSIVE HexPrefix(_)
HexPrefix(s) ==
  IF s # <<>> /\ Head(s) \in DOMAIN HexVal
  THEN <<Head(s)>> \o HexPrefix(Tail(s)) ELSE <<>>

RECURSIVE HexValue(_)
HexValue(ds) ==
  IF ds = <<>> THEN 0
  ELSE 16 * HexValue(SubSeq(ds, 1, Len(ds) - 1)) + HexVal[ds[Len(ds)]]

\* parseInt(str), no radix given: leading white space, an optional sign,
\* then after '0x' or '0X' the longest run of hexadecimal digits, else the
\* longest run of decimal digits; NaN when there is no digit
parseInt(str) ==
  LET s    == TrimStart(str)
      sgn  == IF s # <<>> /\ Head(s) = "-" THEN -1 ELSE 1
      body == IF s # <<>> /\ Head(s) \in {"-", "+"} THEN Tail(s) ELSE s
      hex  == Len(body) >= 2 /\ body[1] = "0" /\ body[2] \in {"x", "X"}
      hs   == HexPrefix(SubSeq(body, 3, Len(body)))
      ds   == DigitPrefix(body)
  IN  IF hex THEN (IF hs = <<>> THEN NaN ELSE Whole(sgn * HexValue(hs)))
      ELSE IF ds = <<>> THEN NaN ELSE Whole(sgn * DigitsValue(ds))

\* parseFloat(str): leading white space, an optional sign, digits, an
\* optional "." and digits; NaN when neither digit run is present.  (The
\* exponent and "Infinity" forms need characters that follow a digit run
\* in no time cell of the input alphabet.)
parseFloat(str) ==
  LET s    == TrimStart(str)
      sgn  == IF s # <<>> /\ Head(s) = "-" THEN -1 ELSE 1
      body == IF s # <<>> /\ Head(s) \in {"-", "+"} THEN Tail(s) ELSE s
      ip   == DigitPrefix(body)
      rest == SubSeq(body, Len(ip) + 1, Len(body))
      fp   == IF rest # <<>> /\ Head(rest) = "." THEN DigitPrefix(Tail(rest))
              ELSE <<>>
  IN  IF ip = <<>> /\ fp = <<>> THEN NaN
      ELSE Num(sgn * (DigitsValue(ip) * Pow10(Len(fp)) + DigitsValue(fp)),
               Pow10(Len(fp)))

----------------------------------------------------------------------------
(* Timecode parser and CSV reader (main.js) *)

\* parseTime ignoring the frames of HH:MM:SS:FF
parseTimeWithoutFrames(timeStr0, frameRate) ==
  LET timeStr   == Trim(timeStr0)
      timeParts == Split(timeStr, ":")
  IN
  IF ~Includes(timeStr, ":")
  THEN LET seconds == parseFloat(timeStr)
       IN  IF ~isNaN(seconds) THEN seconds ELSE NULL
  ELSE IF Len(timeParts) = 2
  THEN LET minutes == parseInt(timeParts[1])
           secs    == parseFloat(timeParts[2])
       IN  IF ~isNaN(minutes) /\ ~isNaN(secs)
           THEN NumAdd(NumMul(minutes, Whole(60)), secs)
           ELSE NULL
  ELSE IF Len(timeParts) = 3
  THEN LET hours   == parseInt(timeParts[1])
           minutes == parseInt(timeParts[2])
           secs    == parseFloat(timeParts[3])
       IN  IF ~isNaN(hours) /\ ~isNaN(minutes) /\ ~isNaN(secs)
           THEN NumAdd(NumAdd(NumMul(hours, Whole(3600)),
                              NumMul(minutes, Whole(60))), secs)
           ELSE NULL
  ELSE IF Len(timeParts) = 4
  THEN LET hours   == parseInt(timeParts[1])
           minutes == parseInt(timeParts[2])
           secs    == parseInt(timeParts[3])
           frames  == parseInt(timeParts[4])
       IN  IF ~isNaN(hours) /\ ~isNaN(minutes) /\ ~isNaN(secs)
              /\ ~isNaN(frames)
           THEN NumAdd(NumAdd(NumMul(hours, Whole(3600)),
                              NumMul(minutes, Whole(60))), secs)
           ELSE NULL
  ELSE NULL

\* parseTime counting an hour as 60 seconds
parseTimeHoursAsMinutes(timeStr0, frameRate) ==
  LET timeStr   == Trim(timeStr0)
      timeParts == Split(timeStr, ":")
  IN
  IF ~Includes(timeStr, ":")
  THEN LET seconds == parseFloat(timeStr)
       IN  IF ~isNaN(seconds) THEN seconds ELSE NULL
  ELSE IF Len(timeParts) = 2
  THEN LET minutes == parseInt(timeParts[1])
           secs    == parseFloat(timeParts[2])
       IN  IF ~isNaN(minutes) /\ ~isNaN(secs)
           THEN NumAdd(NumMul(minutes, Whole(60)), secs)
           ELSE NULL
  ELSE IF Len(timeParts) = 3
  THEN LET hours   == parseInt(timeParts[1])
           minutes == parseInt(timeParts[2])
           secs    == parseFloat(timeParts[3])
       IN  IF ~isNaN(hours) /\ ~isNaN(minutes) /\ ~isNaN(secs)
           THEN NumAdd(NumAdd(NumMul(hours, Whole(60)),
                              NumMul(minutes, Whole(60))), secs)
           ELSE NULL
  ELSE IF Len(timeParts) = 4
  THEN LET hours   == parseInt(timeParts[1])
           minutes == parseInt(timeParts[2])
           secs    == parseInt(timeParts[3])
           frames  == parseInt(timeParts[4])
       IN  IF ~isNaN(hours) /\ ~isNaN(minutes) /\ ~isNaN(secs)
              /\ ~isNaN(frames)
           THEN LET frameSeconds == NumDiv(frames, frameRate)
                IN  NumAdd(NumAdd(NumAdd(NumMul(hours, Whole(60)),
                                         NumMul(minutes, Whole(60))), secs),
                           frameSeconds)
           ELSE NULL
  ELSE NULL

parseTime(timeStr0, frameRate) ==
  LET timeStr   == Trim(timeStr0)
      timeParts == Split(timeStr, ":")
  IN
  IF ~Includes(timeStr, ":")
  THEN LET seconds == parseFloat(timeStr)
       IN  IF ~isNaN(seconds) THEN seconds ELSE NULL
  ELSE IF Len(timeParts) = 2
  THEN LET minutes == parseInt(timeParts[1])
           secs    == parseFloat(timeParts[2])
       IN  IF ~isNaN(minutes) /\ ~isNaN(secs)
           THEN NumAdd(NumMul(minutes, Whole(60)), secs)
           ELSE NULL
  ELSE IF Len(timeParts) = 3
  THEN LET hours   == parseInt(timeParts[1])
           minutes == parseInt(timeParts[2])
           secs    == parseFloat(timeParts[3])
       IN  IF ~isNaN(hours) /\ ~isNaN(minutes) /\ ~isNaN(secs)
           THEN NumAdd(NumAdd(NumMul(hours, Whole(3600)),
                              NumMul(minutes, Whole(60))), secs)
           ELSE NULL
  ELSE IF Len(timeParts) = 4
  THEN LET hours   == parseInt(timeParts[1])
           minutes == parseInt(timeParts[2])
           secs    == parseInt(timeParts[3])
           frames  == parseInt(timeParts[4])
       IN  IF ~isNaN(hours) /\ ~isNaN(minutes) /\ ~isNaN(secs)
              /\ ~isNaN(frames)
           THEN LET frameSeconds == NumDiv(frames, frameRate)
                IN  NumAdd(NumAdd(NumAdd(NumMul(hours, Whole(3600)),
                                         NumMul(minutes, Whole(60))), secs),
                           frameSeconds)
           ELSE NULL
  ELSE NULL

\* parseCSVLineFrom copying the quote characters to the field
RECURSIVE parseCSVLineFromKeepingQuotes(_, _, _, _, _)
parseCSVLineFromKeepingQuotes(line, i, values, current, inQuotes) ==
  IF i > Len(line) THEN Append(values, Trim(current))
  ELSE LET char == line[i] IN
       IF char = "\""
       THEN parseCSVLineFromKeepingQuotes(line, i + 1, values,
                                          Append(current, char), ~inQuotes)
       ELSE IF char = "," /\ ~inQuotes
       THEN parseCSVLineFromKeepingQuotes(line, i + 1,
                                          Append(values, Trim(current)),
                                          <<>>, inQuotes)
       ELSE parseCSVLineFromKeepingQuotes(line, i + 1, values,
                                          Append(current, char), inQuotes)

\* parseCSVLineFrom leaving the quoted state at a comma
RECURSIVE parseCSVLineFromResetAtComma(_, _, _, _, _)
parseCSVLineFromResetAtComma(line, i, values, current, inQuotes) ==
  IF i > Len(line) THEN Append(values, Trim(current))
  ELSE LET char == line[i] IN
       IF char = "\""
       THEN parseCSVLineFromResetAtComma(line, i + 1, values, current,
                                         ~inQuotes)
       ELSE IF char = ","
       THEN parseCSVLineFromResetAtComma(line, i + 1,
                                         Append(values, Trim(current)),
                                         <<>>, FALSE)
       ELSE parseCSVLineFromResetAtComma(line, i + 1, values,
                                         Append(current, char), inQuotes)

\* the loop of parseCSVLine from the 1-based position i on
RECURSIVE parseCSVLineFrom(_, _, _, _, _)
parseCSVLineFrom(line, i, values, current, inQuotes) ==
  IF i > Len(line) THEN Append(values, Trim(current))
  ELSE LET char == line[i] IN
       IF char = "\""
       THEN parseCSVLineFrom(line, i + 1, values, current, ~inQuotes)
       ELSE IF char = "," /\ ~inQuotes
       THEN parseCSVLineFrom(line, i + 1, Append(values, Trim(current)),
                             <<>>, inQuotes)
       ELSE parseCSVLineFrom(line, i + 1, values, Append(current, char),
                             inQuotes)

parseCSVLine(line) == parseCSVLineFrom(line, 1, <<>>, <<>>, FALSE)

\* RowOf with the first of two equal headers winning
RowOfFirstWins(headers, values) ==
  [h \in {headers[i] : i \in 1..Len(headers)} |->
     LET index == CHOOSE i \in 1..Len(headers) :
                     headers[i] = h /\ \A j \in 1..(i - 1) : headers[j] # h
     IN  IF index <= Len(values) THEN values[index] ELSE <<>>]

\* the row object built from one line's values: row[header] = values[index]
\* || '' for every header in turn, so the last of two equal headers wins
RowOf(headers, values) ==
  [h \in {headers[i] : i \in 1..Len(headers)} |->
     LET index == CHOOSE i \in 1..Len(headers) :
                     headers[i] = h /\ \A j \in (i + 1)..Len(headers) :
                                           headers[j] # h
     IN  IF index <= Len(values) THEN values[index] ELSE <<>>]

RECURSIVE RowsFrom(_, _, _)
RowsFrom(headers, lines, i) ==
  IF i > Len(lines) THEN <<>>
  ELSE LET line == Trim(lines[i]) IN
       IF line = <<>> THEN RowsFrom(headers, lines, i + 1)
       ELSE <<RowOf(headers, parseCSVLine(line))>>
            \o RowsFrom(headers, lines, i + 1)

\* an Error thrown with the given message
Thrown(message) == [error |-> message]

IsThrown(x) == "error" \in DOMAIN x

parseCSVWithHeaders(csvContent) ==
  LET lines   == Split(Trim(csvContent), "\n")
      headers == parseCSVLine(lines[1])
  IN  IF Len(lines) = 0 THEN Thrown("CSV file is empty")
      ELSE [headers |-> headers, rows |-> RowsFrom(headers, lines, 2)]

----------------------------------------------------------------------------
(* Frame rate detector (main.js) and time column detector (csv-parser) *)

\* 'time' and 'name', the words that make a first line a header
WordTime == <<"t", "i", "m", "e">>
WordName == <<"n", "a", "m", "e">>

\* the frame numbers pushed by the loop from line i on (1-based)
RECURSIVE FrameNumbersFrom(_, _)
FrameNumbersFrom(lines, i) ==
  IF i > Len(lines) THEN <<>>
  ELSE LET line == Trim(lines[i])
           rest == FrameNumbersFrom(lines, i + 1)
       IN
       IF line = <<>> THEN rest
       ELSE LET values    == parseCSVLine(line)
                timeParts == Split(Trim(values[1]), ":")
            IN  IF Len(values) >= 1 /\ Len(timeParts) = 4
                   /\ ~isNaN(parseInt(timeParts[4]))
                THEN <<parseInt(timeParts[4])>> \o rest
                ELSE rest

\* Math.max(...frameNumbers) for a non-empty list
RECURSIVE MathMax(_)
MathMax(numbers) ==
  IF Len(numbers) = 1 THEN numbers[1]
  ELSE LET rest == MathMax(Tail(numbers))
       IN  IF NumLess(rest, Head(numbers)) THEN Head(numbers) ELSE rest

\* FrameRateBucket with every limit taken inclusively
FrameRateBucketInclusive(maxFrame) ==
  IF ~NumLess(Whole(24), maxFrame) THEN Whole(24)
  ELSE IF ~NumLess(Whole(25), maxFrame) THEN Whole(25)
  ELSE IF ~NumLess(Whole(30), maxFrame) THEN Whole(30)
  ELSE IF ~NumLess(Whole(50), maxFrame) THEN Whole(50)
  ELSE Whole(60)

\* the if-chain on maxFrame
FrameRateBucket(maxFrame) ==
  IF NumLess(maxFrame, Whole(24)) THEN Whole(24)
  ELSE IF NumLess(maxFrame, Whole(25)) THEN Whole(25)
  ELSE IF NumLess(maxFrame, Whole(30)) THEN Whole(30)
  ELSE IF NumLess(maxFrame, Whole(50)) THEN Whole(50)
  ELSE Whole(60)

detectFrameRate(csvContent) ==
  LET lines        == Split(Trim(csvContent), "\n")
      startIndex   == IF IncludesString(toLowerCase(lines[1]), WordTime)
                         \/ IncludesString(toLowerCase(lines[1]), WordName)
                      THEN 1 ELSE 0
      frameNumbers == FrameNumbersFrom(lines, startIndex + 1)
  IN  IF Len(frameNumbers) = 0 THEN Whole(30)
      ELSE FrameRateBucket(MathMax(frameNumbers))

timeKeywords ==
  << <<"t", "i", "m", "e">>,
     <<"t", "i", "m", "e", "c", "o", "d", "e">>,
     <<"t", "c">>,
     <<"s", "m", "p", "t", "e">>,
     <<"t", "i", "m", "e", "s", "t", "a", "m", "p">> >>

\* timeKeywords.some(keyword => headerLower.includes(keyword))
HasTimeKeyword(header) ==
  LET headerLower == toLowerCase(header)
  IN  \E k \in 1..Len(timeKeywords) :
         IncludesString(headerLower, timeKeywords[k])

\* the for loop returns at the first header that matches; headers[0]
\* otherwise
RECURSIVE detectTimeColumnFrom(_, _)
detectTimeColumnFrom(headers, i) ==
  IF i > Len(headers) THEN headers[1]
  ELSE IF HasTimeKeyword(headers[i]) THEN headers[i]
  ELSE detectTimeColumnFrom(headers, i + 1)

\* detectTimeColumn returning the last header that matches
detectTimeColumnLastMatch(headers) ==
  IF \E i \in 1..Len(headers) : HasTimeKeyword(headers[i])
  THEN headers[CHOOSE i \in 1..Len(headers) :
                 /\ HasTimeKeyword(headers[i])
                 /\ \A j \in (i + 1)..Len(headers) :
                       ~HasTimeKeyword(headers[j])]
  ELSE headers[1]

detectTimeColumn(headers) == detectTimeColumnFrom(headers, 1)

----------------------------------------------------------------------------
(* Marker extractor (main.js, parseCSVWithSelectedFields) *)

\* JavaScript !row[key]: the cell is undefined (no such header) or empty
Falsy(row, key) == key \notin DOMAIN row \/ row[key] = <<>>

\* NameParts without the filter: every selected column gives a part
RECURSIVE NamePartsUnfiltered(_, _)
NamePartsUnfiltered(row, fields) ==
  IF fields = <<>> THEN <<>>
  ELSE (IF ~Falsy(row, Head(fields)) THEN <<row[Head(fields)]>>
        ELSE << <<>> >>)
       \o NamePartsUnfiltered(row, Tail(fields))

\* selectedFields.map(field => row[field])
\*               .filter(value => value && value.trim())
RECURSIVE NameParts(_, _)
NameParts(row, fields) ==
  IF fields = <<>> THEN <<>>
  ELSE (IF ~Falsy(row, Head(fields)) /\ Trim(row[Head(fields)]) # <<>>
        THEN <<row[Head(fields)]>> ELSE <<>>)
       \o NameParts(row, Tail(fields))

MarkerName(row, selectedFields) ==
  LET nameParts == NameParts(row, selectedFields)
  IN  IF Len(nameParts) > 0 THEN Join(nameParts, <<" ", "-", " ">>)
      ELSE <<"M", "a", "r", "k", "e", "r">>

\* MarkersFrom leaving the loop at the first row it cannot use
RECURSIVE MarkersFromStopAtBad(_, _, _, _)
MarkersFromStopAtBad(rows, frameRate, timeColumn, selectedFields) ==
  IF rows = <<>> THEN <<>>
  ELSE LET row  == Head(rows)
           rest == MarkersFromStopAtBad(Tail(rows), frameRate, timeColumn,
                                        selectedFields)
       IN  IF Falsy(row, timeColumn) THEN <<>>
           ELSE LET time == parseTime(row[timeColumn], frameRate)
                IN  IF time = NULL THEN <<>>
                    ELSE <<[time |-> time,
                            name |-> MarkerName(row, selectedFields)]>>
                         \o rest

\* the loop over the rows: the markers in row order, before sorting
RECURSIVE MarkersFrom(_, _, _, _)
MarkersFrom(rows, frameRate, timeColumn, selectedFields) ==
  IF rows = <<>> THEN <<>>
  ELSE LET row  == Head(rows)
           rest == MarkersFrom(Tail(rows), frameRate, timeColumn,
                               selectedFields)
       IN  IF Falsy(row, timeColumn) THEN rest
           ELSE LET time == parseTime(row[timeColumn], frameRate)
                IN  IF time = NULL THEN rest
                    ELSE <<[time |-> time,
                            name |-> MarkerName(row, selectedFields)]>>
                         \o rest

\* InsertSorted putting m in front of the elements that compare equal
RECURSIVE InsertSortedBeforeEqual(_, _)
InsertSortedBeforeEqual(sorted, m) ==
  IF sorted = <<>> THEN <<m>>
  ELSE LET last == sorted[Len(sorted)] IN
       IF ~NumLess(last.time, m.time)
       THEN Append(InsertSortedBeforeEqual(
                     SubSeq(sorted, 1, Len(sorted) - 1), m), last)
       ELSE Append(sorted, m)

\* one step of the sort: m goes behind every element that does not compare
\* greater than it
RECURSIVE InsertSorted(_, _)
InsertSorted(sorted, m) ==
  IF sorted = <<>> THEN <<m>>
  ELSE LET last == sorted[Len(sorted)] IN
       IF NumLess(m.time, last.time)
       THEN Append(InsertSorted(SubSeq(sorted, 1, Len(sorted) - 1), m), last)
       ELSE Append(sorted, m)

\* markers.sort((a, b) => a.time - b.time); Array.prototype.sort is stable
RECURSIVE SortByTime(_)
SortByTime(ms) ==
  IF ms = <<>> THEN <<>>
  ELSE InsertSorted(SortByTime(SubSeq(ms, 1, Len(ms) - 1)), ms[Len(ms)])

\* EarliestTime keeping the time of the first marker
EarliestTimeOfFirstRow(ms) == IF ms = <<>> THEN NULL ELSE ms[1].time

\* earliestTime after the loop: NULL, or the least time of the markers
RECURSIVE EarliestTime(_)
EarliestTime(ms) ==
  IF ms = <<>> THEN NULL
  ELSE LET before == EarliestTime(SubSeq(ms, 1, Len(ms) - 1))
           time   == ms[Len(ms)].time
       IN  IF before = NULL THEN time
           ELSE IF NumLess(time, before) THEN time ELSE before

\* String(k) for an integer k
RECURSIVE NatToString(_)
NatToString(k) ==
  IF k < 10 THEN <<Ascii[17 + k]>>
  ELSE Append(NatToString(k \div 10), Ascii[17 + (k % 10)])

StringOf(k) == IF k < 0 THEN <<"-">> \o NatToString(-k) ELSE NatToString(k)

\* String.prototype.padStart(width, '0')
RECURSIVE PadStart(_, _)
PadStart(s, width) ==
  IF Len(s) >= width THEN s ELSE PadStart(<<"0">> \o s, width)

StartTimecode(earliestTime) ==
  IF earliestTime = NULL
  THEN <<"0", "0", " ", "0", "0", " ", "0", "0", " ", "0", "0">>
  ELSE LET hours     == Floor(NumDiv(earliestTime, Whole(3600)))
           startHour == hours
       IN  PadStart(StringOf(startHour), 2)
           \o <<" ", "0", "0", " ", "0", "0", " ", "0", "0">>

parseCSVWithSelectedFields(csv, rate, timeCol, fields) ==
  LET parsed   == parseCSVWithHeaders(csv)
      unsorted == MarkersFrom(parsed.rows, rate, timeCol, fields)
  IN  [markers       |-> SortByTime(unsorted),
       startTimecode |-> StartTimecode(EarliestTime(unsorted))]

----------------------------------------------------------------------------
(* Integers beyond 2^31: a JavaScript number that is an integer is held   *)
(* as [hi, lo] with the value hi * 65536 + lo and lo in 0..65535, so that  *)
(* sizes and sample positions of 2^32 and more are computed exactly        *)

WideOf(k) == [hi |-> k \div 65536, lo |-> k % 65536]

WidePlus(a, b) ==
  LET s == a.lo + b.lo
  IN  [hi |-> a.hi + b.hi + s \div 65536, lo |-> s % 65536]

\* w * k for 0 <= k <= 256
WideTimesSmall(w, k) ==
  LET p == w.lo * k
  IN  [hi |-> w.hi * k + p \div 65536, lo |-> p % 65536]

\* w * k for k >= 0, by the base-256 digits of k
RECURSIVE WideTimes(_, _)
WideTimes(w, k) ==
  IF k <= 256 THEN WideTimesSmall(w, k)
  ELSE WidePlus(WideTimesSmall(WideTimes(w, k \div 256), 256),
                WideTimesSmall(w, k % 256))

\* the value lies in 0 .. 2^31 - 1
FitsInt(w) == w.hi >= 0 /\ w.hi < 32768

IntOf(w) == w.hi * 65536 + w.lo

\* Math.floor(a * k) for a time a and 0 < k < 65536; FloorTimes where its
\* products stay below 2^31
WideFloorTimes(a, k) ==
  LET q == a.n \div a.d
      r == a.n % a.d
  IN  IF Abs(q) < 32768 THEN WideOf(FloorTimes(a, k))
      ELSE WidePlus(WideTimes(WideOf(q), k), WideOf((r * k) \div a.d))

----------------------------------------------------------------------------
(* Buffers: the length and the non-zero bytes, indexed from 0 *)

RangeError == [error |-> "RangeError"]

NoBytes == [i \in {} |-> 0]

\* Buffer.alloc(size): size zero bytes
Alloc(size) ==
  IF size < 0 THEN RangeError ELSE [len |-> size, at |-> NoBytes]

\* Buffer.alloc(size) for a size held as [hi, lo]. A size of 2^31 or more
\* is kept as the length alone, [huge |-> size]: whether Buffer.alloc
\* throws on it depends on buffer.constants.MAX_LENGTH and the memory
\* there is; no byte of such a buffer is read here
AllocWide(size) ==
  IF size.hi < 0 THEN RangeError
  ELSE IF FitsInt(size) THEN Alloc(IntOf(size))
  ELSE [huge |-> size]

\* buf.length, as [hi, lo]
Length(buf) ==
  IF "huge" \in DOMAIN buf THEN buf.huge ELSE WideOf(buf.len)

ByteAt(buf, i) == IF i \in DOMAIN buf.at THEN buf.at[i] ELSE 0

\* the buffer with the bytes bs stored from offset on
Store(buf, offset, bs) ==
  LET touched == offset..(offset + Len(bs) - 1)
      keep    == (DOMAIN buf.at \ touched)
                 \cup {i \in touched : bs[i - offset + 1] # 0}
  IN  [len |-> buf.len,
       at  |-> [i \in keep |-> IF i \in touched THEN bs[i - offset + 1]
                               ELSE buf.at[i]]]

RECURSIVE Pow256(_)
Pow256(k) == IF k = 0 THEN 1 ELSE 256 * Pow256(k - 1)

\* the width low-order bytes of value, least significant first
LittleEndian(value, width) ==
  [k \in 1..width |-> (value \div Pow256(k - 1)) % 256]

\* value >= 2^(8 * width), written so that no power above 2^16 is formed
TooWide(value, width) ==
  IF width = 1 THEN value > 255
  ELSE (value \div 65536) >= Pow256(width - 2)

\* buf.writeUInt8 / writeUInt16LE / writeUInt32LE (value, offset): a value
\* or an offset out of range throws a RangeError
writeUInt(buf, value, offset, width) ==
  IF buf = RangeError THEN RangeError
  ELSE IF value < 0 \/ TooWide(value, width) THEN RangeError
  ELSE IF offset < 0 \/ offset + width > buf.len THEN RangeError
  ELSE Store(buf, offset, LittleEndian(value, width))

writeUInt8(buf, value, offset) == writeUInt(buf, value, offset, 1)
writeUInt16LE(buf, value, offset) == writeUInt(buf, value, offset, 2)

\* buf.writeUInt32LE(value, offset) for a value held as [hi, lo]: a value
\* below 0 or above 2^32 - 1 throws a RangeError
writeWideUInt32LE(buf, w, offset) ==
  IF buf = RangeError THEN RangeError
  ELSE IF w.hi < 0 \/ w.hi >= 65536 THEN RangeError
  ELSE IF offset < 0 \/ offset + 4 > buf.len THEN RangeError
  ELSE Store(buf, offset, <<w.lo % 256, w.lo \div 256,
                            w.hi % 256, w.hi \div 256>>)

writeUInt32LE(buf, value, offset) ==
  writeWideUInt32LE(buf, WideOf(value), offset)

\* the UTF-8 bytes of the longest prefix of s that fits in room bytes
RECURSIVE Utf8Fit(_, _)
Utf8Fit(s, room) ==
  IF s = <<>> THEN <<>>
  ELSE LET b == Utf8OfCodePoint(CodePoint[Head(s)]) IN
       IF Len(b) > room THEN <<>>
       ELSE b \o Utf8Fit(Tail(s), room - Len(b))

Min(a, b) == IF a < b THEN a ELSE b

\* buf.write(string, offset, length): whole characters only, never past
\* the end of the buffer
write(buf, string, offset, length) ==
  IF buf = RangeError THEN RangeError
  ELSE IF offset < 0 \/ offset > buf.len THEN RangeError
  ELSE Store(buf, offset, Utf8Fit(string, Min(length, buf.len - offset)))

\* buf.write(string, offset)
writeAt(buf, string, offset) ==
  IF buf = RangeError THEN RangeError
  ELSE write(buf, string, offset, buf.len - offset)

\* Buffer.concat(list)
RECURSIVE Concat(_)
Concat(list) ==
  IF list = <<>> THEN Alloc(0)
  ELSE LET a == Head(list)
           b == Concat(Tail(list))
       IN  IF a = RangeError \/ b = RangeError THEN RangeError
           ELSE [len |-> a.len + b.len,
                 at  |-> [i \in DOMAIN a.at \cup {j + a.len : j \in DOMAIN b.at}
                            |-> IF i < a.len THEN a.at[i]
                                ELSE b.at[i - a.len]]]

\* source.copy(target, targetStart), the source fitting in the target
Copy(source, target, targetStart) ==
  IF source = RangeError \/ target = RangeError THEN RangeError
  ELSE [len |-> target.len,
        at  |-> [i \in (DOMAIN target.at
                         \ (targetStart..(targetStart + source.len - 1)))
                       \cup {j + targetStart : j \in DOMAIN source.at}
                   |-> IF i - targetStart \in DOMAIN source.at
                       THEN source.at[i - targetStart]
                       ELSE target.at[i]]]

----------------------------------------------------------------------------
(* BWF/WAV encoder (wav-generator.js) *)

sampleRate == 44100
numChannels == 2
bitsPerSample == 16
bytesPerSample == bitsPerSample \div 8

\* what Date.now() and new Date() return at one moment: the epoch time is
\* kept as whole seconds and milliseconds, getMonth() counts from 0
ClockReadings ==
  << [nowSec |-> 1762160707, nowMs |-> 42, year |-> 2025, month |-> 10,
      date |-> 3, hours |-> 9, minutes |-> 5, seconds |-> 7],
     [nowSec |-> 1767225599, nowMs |-> 999, year |-> 2025, month |-> 11,
      date |-> 31, hours |-> 23, minutes |-> 59, seconds |-> 59],
     [nowSec |-> 1767225600, nowMs |-> 0, year |-> 2026, month |-> 0,
      date |-> 1, hours |-> 0, minutes |-> 0, seconds |-> 0] >>

\* `${Date.now()}`
NowString(clock) ==
  StringOf(clock.nowSec) \o PadStart(StringOf(clock.nowMs), 3)

\* createChunkHeader with the 8 header bytes counted in the size
createChunkHeaderCountingHeader(id, size) ==
  LET header == Alloc(8)
  IN  writeUInt32LE(writeAt(header, id, 0), size + 8, 4)

createChunkHeader(id, size) ==
  LET header == Alloc(8)
  IN  writeUInt32LE(writeAt(header, id, 0), size, 4)

createFmtChunk(sr, nc, bps) ==
  LET chunk      == Alloc(16)
      blockAlign == nc * (bps \div 8)
      byteRate   == sr * blockAlign
      c1 == writeUInt16LE(chunk, 1, 0)
      c2 == writeUInt16LE(c1, nc, 2)
      c3 == writeUInt32LE(c2, sr, 4)
      c4 == writeUInt32LE(c3, byteRate, 8)
      c5 == writeUInt16LE(c4, blockAlign, 12)
  IN  writeUInt16LE(c5, bps, 14)

\* the bext chunk with the given description and originator strings
BextChunk(description, originator, clock) ==
  LET chunk           == Alloc(602)
      originatorRef   == <<"C", "S", "V", "2", "L", "O", "G", "I", "C">>
                         \o NowString(clock)
      originationDate == StringOf(clock.year) \o <<":">>
                         \o PadStart(StringOf(clock.month + 1), 2) \o <<":">>
                         \o PadStart(StringOf(clock.date), 2)
      originationTime == PadStart(StringOf(clock.hours), 2) \o <<":">>
                         \o PadStart(StringOf(clock.minutes), 2) \o <<":">>
                         \o PadStart(StringOf(clock.seconds), 2)
      timeReferenceLow  == 0
      timeReferenceHigh == 0
      c1 == write(chunk, description, 0, 256)
      c2 == write(c1, originator, 256, 32)
      c3 == write(c2, originatorRef, 288, 32)
      c4 == write(c3, originationDate, 320, 10)
      c5 == write(c4, originationTime, 330, 8)
      c6 == writeUInt32LE(c5, timeReferenceLow, 338)
      c7 == writeUInt32LE(c6, timeReferenceHigh, 342)
  IN  writeUInt16LE(c7, 2, 346)

\* createBextChunk with the time stamp appended to the description
createBextChunkStamped(clock) ==
  BextChunk(<<"C", "u", "e", "S", "y", "n", "c", "h", " ", "-", " ", "G",
              "e", "n", "e", "r", "a", "t", "e", "d", " ", "m", "a", "r",
              "k", "e", "r", " ", "f", "i", "l", "e", " ">>
              \o NowString(clock),
            <<"C", "u", "e", "S", "y", "n", "c", "h">>, clock)

\* 'CueSynch - Generated marker file', 'CueSynch'
createBextChunk(clock) ==
  BextChunk(<<"C", "u", "e", "S", "y", "n", "c", "h", " ", "-", " ", "G",
              "e", "n", "e", "r", "a", "t", "e", "d", " ", "m", "a", "r",
              "k", "e", "r", " ", "f", "i", "l", "e">>,
            <<"C", "u", "e", "S", "y", "n", "c", "h">>, clock)

\* the forEach of createCueChunk from the 0-based index on
RECURSIVE CuePoints(_, _, _, _)
CuePoints(chunk, markers, index, sr) ==
  IF index >= Len(markers) THEN chunk
  ELSE LET marker         == markers[index + 1]
           samplePosition == WideFloorTimes(marker.time, sr)
           offset         == 4 + 24 * index
           c1 == writeUInt32LE(chunk, index + 1, offset)
           c2 == writeWideUInt32LE(c1, samplePosition, offset + 4)
           c3 == writeAt(c2, <<"d", "a", "t", "a">>, offset + 8)
           c4 == writeUInt32LE(c3, 0, offset + 12)
           c5 == writeUInt32LE(c4, 0, offset + 16)
           c6 == writeWideUInt32LE(c5, samplePosition, offset + 20)
       IN  CuePoints(c6, markers, index + 1, sr)

createCueChunk(markers, sr) ==
  LET numCuePoints == Len(markers)
      chunk        == Alloc(4 + numCuePoints * 24)
  IN  CuePoints(writeUInt32LE(chunk, numCuePoints, 0), markers, 0, sr)

\* lablSubChunk with the 0-based index written as cue ID
lablSubChunkZeroBased(marker, index) ==
  LET label        == marker.name
      labelLength  == ByteLength(label) + 1
      paddedLength == labelLength + (labelLength % 2)
      subChunk     == Alloc(8 + 4 + paddedLength)
      s1 == writeAt(subChunk, <<"l", "a", "b", "l">>, 0)
      s2 == writeUInt32LE(s1, 4 + paddedLength, 4)
      s3 == writeUInt32LE(s2, index, 8)
      s4 == writeAt(s3, label, 12)
  IN  writeUInt8(s4, 0, 12 + StringLength(label))

\* lablSubChunk without the padding byte
lablSubChunkUnpadded(marker, index) ==
  LET label        == marker.name
      labelLength  == ByteLength(label) + 1
      paddedLength == labelLength
      subChunk     == Alloc(8 + 4 + paddedLength)
      s1 == writeAt(subChunk, <<"l", "a", "b", "l">>, 0)
      s2 == writeUInt32LE(s1, 4 + paddedLength, 4)
      s3 == writeUInt32LE(s2, index + 1, 8)
      s4 == writeAt(s3, label, 12)
  IN  writeUInt8(s4, 0, 12 + StringLength(label))

\* one labl sub-chunk of the desktop encoder; index is the 0-based forEach
\* index, label.length counts UTF-16 code units
lablSubChunk(marker, index) ==
  LET label        == marker.name
      labelLength  == ByteLength(label) + 1
      paddedLength == labelLength + (labelLength % 2)
      subChunk     == Alloc(8 + 4 + paddedLength)
      s1 == writeAt(subChunk, <<"l", "a", "b", "l">>, 0)
      s2 == writeUInt32LE(s1, 4 + paddedLength, 4)
      s3 == writeUInt32LE(s2, index + 1, 8)
      s4 == writeAt(s3, label, 12)
  IN  writeUInt8(s4, 0, 12 + StringLength(label))

\* the list chunk around the concatenated sub-chunks
ListChunkOf(subChunks) ==
  LET subChunksBuffer == Concat(subChunks)
  IN  IF subChunksBuffer = RangeError THEN RangeError
      ELSE LET listChunk == Alloc(4 + subChunksBuffer.len)
           IN  Copy(subChunksBuffer,
                    writeAt(listChunk, <<"a", "d", "t", "l">>, 0), 4)

createListChunk(markers) ==
  ListChunkOf([i \in 1..Len(markers) |-> lablSubChunk(markers[i], i - 1)])

\* createDataChunk with the size reduced modulo 2^32, as dataSize >>> 0
\* does
createDataChunkUint32(numSamples, nc, bps) ==
  LET dataSize == WideTimes(WideTimes(numSamples, nc), bps)
  IN  AllocWide([hi |-> dataSize.hi % 65536, lo |-> dataSize.lo])

\* numSamples is held as [hi, lo]
createDataChunk(numSamples, nc, bps) ==
  LET dataSize == WideTimes(WideTimes(numSamples, nc), bps)
  IN  AllocWide(dataSize)

\* the RIFF header and the five chunks, in file order
Assemble(fmtChunk, bextChunk, dataChunk, cueChunk, listChunk) ==
  IF RangeError \in {fmtChunk, bextChunk, dataChunk, cueChunk, listChunk}
  THEN RangeError
  ELSE LET fileSize ==
             WidePlus(WideOf(4 + 8 + fmtChunk.len + 8 + bextChunk.len + 8),
                      WidePlus(Length(dataChunk),
                               WideOf(8 + cueChunk.len + 8 + listChunk.len)))
           riffHeader ==
             writeAt(writeWideUInt32LE(writeAt(Alloc(12),
                                               <<"R", "I", "F", "F">>, 0),
                                       fileSize, 4),
                     <<"W", "A", "V", "E">>, 8)
       IN  IF riffHeader = RangeError THEN RangeError
           ELSE
           Concat(<<riffHeader,
                    createChunkHeader(<<"f", "m", "t", " ">>, fmtChunk.len),
                    fmtChunk,
                    createChunkHeader(<<"b", "e", "x", "t">>, bextChunk.len),
                    bextChunk,
                    createChunkHeader(<<"d", "a", "t", "a">>, dataChunk.len),
                    dataChunk,
                    createChunkHeader(<<"c", "u", "e", " ">>, cueChunk.len),
                    cueChunk,
                    createChunkHeader(<<"L", "I", "S", "T">>, listChunk.len),
                    listChunk>>)

\* Duration with Math.floor in place of Math.ceil
DurationFloor(markers) ==
  IF Len(markers) > 0 THEN Floor(markers[Len(markers)].time) + 1 ELSE 10

\* Duration taken from the first marker in place of the last
DurationOfFirst(markers) ==
  IF Len(markers) > 0 THEN Ceil(markers[1].time) + 1 ELSE 10

\* seconds of audio: Math.ceil(last marker time) + 1, or 10
Duration(markers) ==
  IF Len(markers) > 0 THEN Ceil(markers[Len(markers)].time) + 1 ELSE 10

\* the bytes written to outputPath, or the RangeError thrown
generateWavWithMarkers(markers, clock) ==
  LET duration   == Duration(markers)
      numSamples == WideTimes(WideOf(duration), sampleRate)
      fmtChunk   == createFmtChunk(sampleRate, numChannels, bitsPerSample)
      bextChunk  == createBextChunk(clock)
      cueChunk   == createCueChunk(markers, sampleRate)
      listChunk  == createListChunk(markers)
      dataChunk  == createDataChunk(numSamples, numChannels, bytesPerSample)
  IN  Assemble(fmtChunk, bextChunk, dataChunk, cueChunk, listChunk)

----------------------------------------------------------------------------
(* Web encoder (lib/wav-generator.ts); createChunkHeader, createFmtChunk,  *)
(* createCueChunk and createDataChunk are the same text as the desktop's   *)

\* 'CueSynch Web - Generated marker file', 'CueSynch Web'
createBextChunkWeb(clock) ==
  BextChunk(<<"C", "u", "e", "S", "y", "n", "c", "h", " ", "W", "e", "b",
              " ", "-", " ", "G", "e", "n", "e", "r", "a", "t", "e", "d",
              " ", "m", "a", "r", "k", "e", "r", " ", "f", "i", "l", "e">>,
            <<"C", "u", "e", "S", "y", "n", "c", "h", " ", "W", "e", "b">>,
            clock)

lablSubChunkWeb(marker, index) ==
  LET label           == marker.name
      labelByteLength == ByteLength(label)
      labelLength     == labelByteLength + 1
      paddedLength    == labelLength + (labelLength % 2)
      subChunk        == Alloc(8 + 4 + paddedLength)
      s1 == writeAt(subChunk, <<"l", "a", "b", "l">>, 0)
      s2 == writeUInt32LE(s1, 4 + paddedLength, 4)
      s3 == writeUInt32LE(s2, index + 1, 8)
      s4 == writeAt(s3, label, 12)
  IN  writeUInt8(s4, 0, 12 + labelByteLength)

createListChunkWeb(markers) ==
  ListChunkOf([i \in 1..Len(markers) |-> lablSubChunkWeb(markers[i], i - 1)])

generateWavWithMarkersWeb(markers, clock) ==
  LET duration   == Duration(markers)
      numSamples == WideTimes(WideOf(duration), sampleRate)
      fmtChunk   == createFmtChunk(sampleRate, numChannels, bitsPerSample)
      bextChunk  == createBextChunkWeb(clock)
      cueChunk   == createCueChunk(markers, sampleRate)
      listChunk  == createListChunkWeb(markers)
      dataChunk  == createDataChunk(numSamples, numChannels, bytesPerSample)
  IN  Assemble(fmtChunk, bextChunk, dataChunk, cueChunk, listChunk)

----------------------------------------------------------------------------
(* The program: a request is extracted into markers, the markers are      *)
(* encoded by the desktop encoder and by the web encoder                   *)

VARIABLES
  csvContent,      \* the CSV text of the request
  frameRate,       \* the frame rate of the request
  timeColumn,      \* the header chosen as time column
  selectedFields,  \* the headers chosen as label columns
  pc,              \* "request" before the extraction, "extracted" after
  markers,         \* the markers returned by parseCSVWithSelectedFields
  startTimecode,   \* the session start timecode returned with them
  clock,           \* which of ClockReadings the system clock shows
  desktopOut,      \* per desktop run: the bytes written, or RangeError
  webOut,          \* per web run: the bytes returned, or RangeError
  page,            \* the web page's state: file, choices, error, download
  form,            \* the form data of the request to POST /api/generate-wav
  response,        \* the response of POST /api/generate-wav
  ipcResult,       \* the value the 'generate-wav' IPC handler resolves to
  disk,            \* the file at the chosen path and the temporary script
  automation,      \* the osascript child process of the import automation
  call,            \* a library function called on its own, with arguments
  ret,             \* what that call returned or threw
  analyses,        \* the web page's requests to POST /api/analyze-csv
  invocations      \* the overlapping invocations of 'generate-wav'

\* the request and the pipeline state
progVars == <<csvContent, frameRate, timeColumn, selectedFields, pc, markers,
              startTimecode, clock, desktopOut, webOut>>

\* the state of the two generate handlers
handlerVars == <<page, form, response, ipcResult, disk, automation>>

\* the state of a library call
libVars == <<call, ret>>

\* the state of overlapping requests and invocations
overlapVars == <<analyses, invocations>>

vars == <<progVars, handlerVars, libVars, overlapVars>>

\* null / undefined / nothing yet
NONE == [none |-> TRUE]

\* no handler is running
HandlersIdle ==
  /\ page = NONE
  /\ form = NONE
  /\ response = NONE
  /\ ipcResult = NONE
  /\ disk = [wav |-> NONE, script |-> NONE]
  /\ automation = "idle"

\* no library call is made
LibIdle ==
  /\ call = NONE
  /\ ret = NONE

\* nothing overlaps
OverlapIdle ==
  /\ analyses = NONE
  /\ invocations = NONE

\* the clock after an encoder has read it: time has passed
ClockAfter(c) == IF c < Len(ClockReadings) THEN c + 1 ELSE c

\* 'time,name'
Header == <<"t", "i", "m", "e", ",", "n", "a", "m", "e">>

ColTime == <<"t", "i", "m", "e">>
ColName == <<"n", "a", "m", "e">>
\* a column name that is no header of the CSV
ColStart == <<"s", "t", "a", "r", "t">>

\* the lines a generated CSV text is made of
RowTexts ==
  { <<"1", "0", ".", "5", ",", "V", "e", "r", "s", "e", " ", "1">>,
    <<"1", ":", "3", "0", ",", "C", "h", "o", "r", "u", "s">>,
    <<"0", "0", ":", "0", "1", ":", "3", "0", ",", "H", "o", "o", "k">>,
    <<"a", "b", "c", ",", "B", "a", "d">>,
    <<"7", ",", "Aring", "euro", "grin">>,
    <<"-", "5", ",", "N", "e", "g">>,
    <<"2">> }

GeneratedCSVs ==
  { Join(<<Header>> \o rows, <<"\n">>) :
      rows \in UNION { [1..n -> RowTexts] : n \in 0..MaxRows } }

\* the README's simple format example
ReadmeCSV ==
  <<"t", "i", "m", "e", ",", "n", "a", "m", "e", "\n",
    "0", ",", "I", "n", "t", "r", "o", "\n",
    "1", "0", ".", "5", ",", "V", "e", "r", "s", "e", " ", "1", "\n",
    "1", ":", "3", "0", ",", "C", "h", "o", "r", "u", "s", "\n",
    "0", ":", "0", "1", ":", "4", "5", ":", "1", "5", ",",
    "B", "r", "i", "d", "g", "e">>

\* valid rows with unusable rows between them
SparseCSV ==
  <<"t", "i", "m", "e", ",", "n", "a", "m", "e", "\n",
    "0", ",", "I", "n", "t", "r", "o", "\n",
    "a", "b", "c", ",", "B", "a", "d", "\n",
    "1", "0", ".", "5", ",", "V", "e", "r", "s", "e", " ", "1", "\n",
    ",", "E", "m", "p", "t", "y", "\n",
    "1", ":", "3", "0", ",", "C", "h", "o", "r", "u", "s">>

\* a marker seven hours in: the data chunk would take 2^32 bytes and more
LongCSV ==
  <<"t", "i", "m", "e", ",", "n", "a", "m", "e", "\n",
    "0", ",", "S", "t", "a", "r", "t", "\n",
    "7", ":", "0", "0", ":", "0", "0", ",", "L", "o", "n", "g">>

\* a marker a hundred hours in: its sample position is 2^32 and more
FarCSV ==
  <<"t", "i", "m", "e", ",", "n", "a", "m", "e", "\n",
    "1", "0", "0", ":", "0", "0", ":", "0", "0", ",", "F", "a", "r">>

FrameRates == {Whole(24), Num(2997, 100), Whole(30)}

Init ==
  /\ \/ /\ csvContent \in GeneratedCSVs
        /\ frameRate = Whole(30)
        /\ timeColumn = ColTime
     \/ /\ csvContent \in {ReadmeCSV, SparseCSV, LongCSV, FarCSV}
        /\ frameRate \in FrameRates
        /\ timeColumn \in {ColTime, ColStart}
  /\ selectedFields = <<ColName>>
  /\ pc = "request"
  /\ markers = <<>>
  /\ startTimecode = <<>>
  /\ clock = 1
  /\ desktopOut = <<>>
  /\ webOut = <<>>
  /\ HandlersIdle
  /\ LibIdle
  /\ OverlapIdle

\* parseCSVWithSelectedFields(csvContent, frameRate, timeColumn,
\* selectedFields)
Extract ==
  /\ pc = "request"
  /\ LET result == parseCSVWithSelectedFields(csvContent, frameRate,
                                              timeColumn, selectedFields)
     IN  /\ markers' = result.markers
         /\ startTimecode' = result.startTimecode
  /\ pc' = "extracted"
  /\ UNCHANGED <<csvContent, frameRate, timeColumn, selectedFields, clock,
                 desktopOut, webOut, handlerVars, libVars, overlapVars>>

\* the desktop handler's generateWavWithMarkers(markers, filePath)
GenerateDesktop ==
  /\ pc = "extracted"
  /\ Len(desktopOut) + Len(webOut) < MaxRuns
  /\ desktopOut' =
       Append(desktopOut, generateWavWithMarkers(markers, ClockReadings[clock]))
  /\ clock' = ClockAfter(clock)
  /\ UNCHANGED <<csvContent, frameRate, timeColumn, selectedFields, pc,
                 markers, startTimecode, webOut, handlerVars, libVars, overlapVars>>

\* the web route's generateWavWithMarkers(markers), reached with at least
\* one marker
GenerateWeb ==
  /\ pc = "extracted"
  /\ Len(markers) # 0
  /\ Len(desktopOut) + Len(webOut) < MaxRuns
  /\ webOut' =
       Append(webOut, generateWavWithMarkersWeb(markers, ClockReadings[clock]))
  /\ clock' = ClockAfter(clock)
  /\ UNCHANGED <<csvContent, frameRate, timeColumn, selectedFields, pc,
                 markers, startTimecode, desktopOut, handlerVars, libVars, overlapVars>>

Next == Extract \/ GenerateDesktop \/ GenerateWeb

Spec == Init /\ [][Next]_vars

----------------------------------------------------------------------------
(* The two generate handlers: the web page and POST /api/generate-wav      *)
(* (page.tsx, route.ts), and the desktop 'generate-wav' IPC handler with   *)
(* its save dialog and import automation (main.js)                         *)

\* JavaScript !value for a string or null: null, undefined or ''
FalsyValue(value) == value = NONE \/ value = <<>>

\* JSON.stringify of an array of strings that need no escaping
JSONStringify(list) ==
  <<"[">>
  \o Join([i \in 1..Len(list) |-> <<"\"">> \o list[i] \o <<"\"">>], <<",">>)
  \o <<"]">>

\* an item of a JSON array text is a string literal without escapes
IsJSONString(item) ==
  /\ Len(item) >= 2
  /\ item[1] = "\"" /\ item[Len(item)] = "\""
  /\ \A i \in 2..(Len(item) - 1) : item[i] \notin {"\"", "\\"}

\* JSON.parse of a text: an array of such strings is returned as the list
\* of their contents, [value |-> list]; any other text of the inputs is no
\* JSON and throws
JSONParse(text) ==
  LET t     == Trim(text)
      inner == Trim(SubSeq(t, 2, Len(t) - 1))
      items == [i \in 1..Len(Split(inner, ",")) |->
                  Trim(Split(inner, ",")[i])]
  IN  IF Len(t) < 2 \/ t[1] # "[" \/ t[Len(t)] # "]"
      THEN Thrown("SyntaxError")
      ELSE IF inner = <<>> THEN [value |-> <<>>]
      ELSE IF \A i \in 1..Len(items) : IsJSONString(items[i])
      THEN [value |-> [i \in 1..Len(items) |->
                         SubSeq(items[i], 2, Len(items[i]) - 1)]]
      ELSE Thrown("SyntaxError")

\* parseCSVWithSelectedFields of the web parser: the sorted markers alone
parseCSVWithSelectedFieldsWeb(csv, rate, timeCol, fields) ==
  LET parsed == parseCSVWithHeaders(csv)
  IN  SortByTime(MarkersFrom(parsed.rows, rate, timeCol, fields))

\* 'time,name' and one row whose time cell is no time
UnusableCSV == <<"t", "i", "m", "e", ",", "n", "a", "m", "e", "\n", "a", "b",
                 "c", ",", "B", "a", "d">>

\* 'time,name' and one row with a negative time
NegativeCSV == <<"t", "i", "m", "e", ",", "n", "a", "m", "e", "\n", "-", "5",
                 ",", "N", "e", "g">>

\* '30', the frame rate as the page sends it
RateText == <<"3", "0">>

\* the states of the web page when Generate is clicked
PageStates ==
  [file : {NONE, Header, ReadmeCSV},
   frameRate : {RateText},
   timeColumn : {<<>>, ColTime},
   selectedFields : {<<>>, <<ColName>>},
   error : {""},
   download : {NONE}]

\* the form data of requests sent by other clients than the page
DirectForms ==
  [file : {NONE, Header, ReadmeCSV, UnusableCSV},
   frameRate : {RateText},
   timeColumn : {NONE, <<>>, ColTime},
   selectedFields : {NONE, <<>>, <<"[", "]">>, JSONStringify(<<ColName>>),
                     <<"n", "a", "m", "e">>}]

\* the files the desktop handler is asked to read; NONE cannot be read
DesktopFiles ==
  {NONE, Header, ReadmeCSV, SparseCSV, UnusableCSV, NegativeCSV}

HandlerInit ==
  /\ \/ /\ pc = "page"
        /\ page \in PageStates
        /\ form = NONE
        /\ csvContent = <<>>
        /\ timeColumn = <<>>
        /\ selectedFields = <<>>
     \/ /\ pc = "post"
        /\ page = NONE
        /\ form \in DirectForms
        /\ csvContent = <<>>
        /\ timeColumn = <<>>
        /\ selectedFields = <<>>
     \/ /\ pc = "ipc"
        /\ page = NONE
        /\ form = NONE
        /\ csvContent \in DesktopFiles
        /\ timeColumn \in {<<>>, ColTime, ColStart}
        /\ selectedFields \in {<<>>, <<ColName>>}
  /\ frameRate = Whole(30)
  /\ markers = <<>>
  /\ startTimecode = <<>>
  /\ clock = 1
  /\ desktopOut = <<>>
  /\ webOut = <<>>
  /\ response = NONE
  /\ ipcResult = NONE
  /\ disk = [wav |-> NONE, script |-> NONE]
  /\ automation = "idle"
  /\ LibIdle
  /\ OverlapIdle

\* page.tsx handleGenerateWAV up to the fetch
handleGenerateWAV ==
  /\ pc = "page"
  /\ IF page.file = NONE \/ FalsyValue(page.timeColumn)
        \/ Len(page.selectedFields) = 0
     THEN /\ page' = [page EXCEPT !.error =
                "Please select time column and at least one marker field"]
          /\ form' = form
          /\ pc' = "done"
     ELSE /\ page' = [page EXCEPT !.error = ""]
          /\ form' = [file           |-> page.file,
                      frameRate      |-> page.frameRate,
                      timeColumn     |-> page.timeColumn,
                      selectedFields |-> JSONStringify(page.selectedFields)]
          /\ pc' = "post"
  /\ UNCHANGED <<csvContent, frameRate, timeColumn, selectedFields, markers,
                 startTimecode, clock, desktopOut, webOut, response,
                 ipcResult, disk, automation, libVars, overlapVars>>

\* route.ts 40-56: the WAV is the body of the response; what generating
\* it throws is caught and answered with status 500
WavResponse(found, wav) ==
  IF wav = RangeError
  THEN [status |-> 500, message |-> "RangeError", markers |-> found]
  ELSE [status |-> 200, body |-> wav, markers |-> found]

\* route.ts 33-40: no marker is answered with status 400
MarkersResponse(found, now) ==
  IF Len(found) = 0
  THEN [status |-> 400, message |-> "No valid markers found in CSV",
        markers |-> found]
  ELSE WavResponse(found, generateWavWithMarkersWeb(found, now))

\* route.ts 20-31: the parsed list of label columns selects the markers
ParsedResponse(file, rate, timeCol, fields, now) ==
  IF IsThrown(fields)
  THEN [status |-> 500, message |-> "SyntaxError", markers |-> <<>>]
  ELSE MarkersResponse(
         parseCSVWithSelectedFieldsWeb(file, rate, timeCol, fields.value),
         now)

\* the response of the route once the parameters are there, with the
\* markers it found
RouteResponse(file, rate, timeCol, fieldsJson, now) ==
  ParsedResponse(file, rate, timeCol, JSONParse(fieldsJson), now)

\* the response is sent; a generated WAV has read the clock
SendResponse(full) ==
  /\ response' = [f \in DOMAIN full \ {"markers"} |-> full[f]]
  /\ markers' = full.markers
  /\ clock' = IF full.status = 200 THEN ClockAfter(clock) ELSE clock

\* route.ts POST
POST ==
  /\ pc = "post"
  /\ IF form.file = NONE \/ FalsyValue(form.timeColumn)
        \/ FalsyValue(form.selectedFields)
     THEN /\ response' = [status  |-> 400,
                          message |-> "Missing required parameters"]
          /\ UNCHANGED <<markers, clock>>
     ELSE SendResponse(RouteResponse(form.file, parseFloat(form.frameRate),
                                     form.timeColumn, form.selectedFields,
                                     ClockReadings[clock]))
  /\ pc' = "responded"
  /\ UNCHANGED <<csvContent, frameRate, timeColumn, selectedFields,
                 startTimecode, desktopOut, webOut, page, form, ipcResult,
                 disk, automation, libVars, overlapVars>>

\* page.tsx handleGenerateWAV after the fetch
handleResponse ==
  /\ pc = "responded"
  /\ page # NONE
  /\ page' = IF response.status = 200
             THEN [page EXCEPT !.download = response.body]
             ELSE [page EXCEPT !.error = response.message]
  /\ pc' = "done"
  /\ UNCHANGED <<csvContent, frameRate, timeColumn, selectedFields, markers,
                 startTimecode, clock, desktopOut, webOut, form, response,
                 ipcResult, disk, automation, libVars, overlapVars>>

\* main.js 'generate-wav' up to the save dialog
GenerateWavRequested ==
  /\ pc = "ipc"
  /\ IF csvContent = NONE
     THEN /\ ipcResult' = [success |-> FALSE, message |-> "Error: ENOENT"]
          /\ pc' = "done"
          /\ UNCHANGED <<markers, startTimecode>>
     ELSE /\ LET parsed == parseCSVWithSelectedFields(
                             csvContent, frameRate, timeColumn,
                             selectedFields)
             IN  /\ markers' = parsed.markers
                 /\ startTimecode' = parsed.startTimecode
          /\ pc' = "dialog"
          /\ ipcResult' = ipcResult
  /\ UNCHANGED <<csvContent, frameRate, timeColumn, selectedFields, clock,
                 desktopOut, webOut, page, form, response, disk, automation,
                 libVars, overlapVars>>

\* the save dialog is closed, with a path or without ('' here); with a
\* path the WAV file is generated and written
SaveDialogClosed ==
  /\ pc = "dialog"
  /\ \E filePath \in {"", "wav"} :
       IF filePath = ""
       THEN /\ ipcResult' = [success |-> FALSE, message |-> "Save cancelled"]
            /\ pc' = "done"
            /\ UNCHANGED <<disk, clock>>
       ELSE LET wav == generateWavWithMarkers(markers, ClockReadings[clock])
            IN  IF wav = RangeError
                THEN /\ ipcResult' = [success |-> FALSE,
                                      message |-> "Error: RangeError"]
                     /\ pc' = "done"
                     /\ UNCHANGED <<disk, clock>>
                ELSE /\ disk' = [disk EXCEPT !.wav = wav]
                     /\ clock' = ClockAfter(clock)
                     /\ pc' = "written"
                     /\ ipcResult' = ipcResult
  /\ UNCHANGED <<csvContent, frameRate, timeColumn, selectedFields, markers,
                 startTimecode, desktopOut, webOut, page, form, response,
                 automation, libVars, overlapVars>>

\* ImportAutomation without the inner try/catch: a failure to write the
\* script reaches the handler's outer catch
ImportAutomationUncaught ==
  /\ pc = "written"
  /\ \E scriptWritten \in BOOLEAN :
       IF scriptWritten
       THEN /\ disk' = [disk EXCEPT !.script =
                          [startTimecode |-> startTimecode,
                           fileName      |-> "wav"]]
            /\ automation' = "running"
            /\ ipcResult' = [success |-> TRUE,
                             message |-> "Markers file created successfully"]
       ELSE /\ disk' = disk
            /\ automation' = "failed"
            /\ ipcResult' = [success |-> FALSE, message |-> "Error: EACCES"]
  /\ pc' = "returned"
  /\ UNCHANGED <<csvContent, frameRate, timeColumn, selectedFields, markers,
                 startTimecode, clock, desktopOut, webOut, page, form,
                 response, libVars, overlapVars>>

\* the import automation and the handler's return: the AppleScript is
\* written to the temporary file and osascript is started, or the write
\* fails and is logged; the handler resolves to success
ImportAutomation ==
  /\ pc = "written"
  /\ \E scriptWritten \in BOOLEAN :
       IF scriptWritten
       THEN /\ disk' = [disk EXCEPT !.script =
                          [startTimecode |-> startTimecode,
                           fileName      |-> "wav"]]
            /\ automation' = "running"
       ELSE /\ disk' = disk
            /\ automation' = "failed"
  /\ ipcResult' = [success |-> TRUE,
                   message |-> "Markers file created successfully"]
  /\ pc' = "returned"
  /\ UNCHANGED <<csvContent, frameRate, timeColumn, selectedFields, markers,
                 startTimecode, clock, desktopOut, webOut, page, form,
                 response, libVars, overlapVars>>

\* the callback of exec: the temporary script is unlinked (a failure to
\* unlink is logged), the outcome of osascript is logged
OsascriptExited ==
  /\ automation = "running"
  /\ \E error \in BOOLEAN, unlinked \in BOOLEAN :
       /\ disk' = IF unlinked THEN [disk EXCEPT !.script = NONE] ELSE disk
       /\ automation' = IF error THEN "failed" ELSE "imported"
  /\ UNCHANGED <<progVars, page, form, response, ipcResult, libVars, overlapVars>>

HandlerNext ==
  \/ handleGenerateWAV
  \/ POST
  \/ handleResponse
  \/ GenerateWavRequested
  \/ SaveDialogClosed
  \/ ImportAutomation
  \/ OsascriptExited

HandlerSpec == HandlerInit /\ [][HandlerNext]_vars

----------------------------------------------------------------------------
(* Library calls: each function of the parser called on its own, as the    *)
(* 'analyze-csv' handler and the web pages call them                       *)

\* the pipeline is not running
ProgIdle ==
  /\ csvContent = <<>>
  /\ frameRate = Whole(30)
  /\ timeColumn = <<>>
  /\ selectedFields = <<>>
  /\ pc = "idle"
  /\ markers = <<>>
  /\ startTimecode = <<>>
  /\ clock = 1
  /\ desktopOut = <<>>
  /\ webOut = <<>>

\* every sequence over the set S of a length in lo..hi
SeqsOf(S, lo, hi) == UNION { [1..n -> S] : n \in lo..hi }

\* texts of white space only, the empty text among them
BlankTexts == SeqsOf({" ", "\n", "\t"}, 0, MaxRows)

\* lines of texts given to detectFrameRate: a header, timecodes whose
\* frame numbers lie on both sides of every limit, a frame part that is no
\* number, and a data line that contains the word 'time'
FrameLines ==
  { <<"t", "i", "m", "e", ",", "n", "a", "m", "e">>,
    <<"0", "0", ":", "0", "0", ":", "0", "1", ":", "2", "3", ",", "A">>,
    <<"0", "0", ":", "0", "0", ":", "0", "1", ":", "2", "4", ",", "B">>,
    <<"0", "0", ":", "0", "0", ":", "0", "1", ":", "2", "9", ",", "C">>,
    <<"0", "0", ":", "0", "0", ":", "0", "1", ":", "3", "0", ",", "D">>,
    <<"0", "0", ":", "0", "0", ":", "0", "1", ":", "4", "9", ",", "E">>,
    <<"0", "0", ":", "0", "0", ":", "0", "1", ":", "5", "0", ",", "F">>,
    <<"0", "0", ":", "0", "0", ":", "0", "1", ":", "x", "x", ",", "G">>,
    <<"0", "0", ":", "0", "0", ":", "0", "2", ":", "1", "0", ",", "I", "n",
      "t", "r", "o", " ", "t", "i", "m", "e">> }

FrameTexts ==
  { Join(lines, <<"\n">>) : lines \in SeqsOf(FrameLines, 1, MaxRows + 1) }

\* the parts time texts are made of
TimeTokens ==
  { <<"1">>,
    <<"0", "5">>,
    <<"1", ".", "5">>,
    <<"3", "a">>,
    <<"x">> }

\* a text with white space around it
Padded(text) == <<" ">> \o text \o <<"\t">>

\* the calls of parseTime: the text is the parts joined with ':', bare or
\* with white space around it; the parts are kept beside the text
ParseTimeCalls ==
  { [fn |-> "parseTime", parts |-> parts, padded |-> padded,
     timeStr |-> IF padded THEN Padded(Join(parts, <<":">>))
                 ELSE Join(parts, <<":">>),
     frameRate |-> rate] :
      parts \in SeqsOf(TimeTokens, 1, MaxParts), padded \in BOOLEAN,
      rate \in {Whole(24), Whole(30)} }

\* header names given to detectTimeColumn
HeaderNames ==
  { <<"N", "a", "m", "e">>,
    <<"T", "I", "M", "E">>,
    <<"N", "o", "t", "c", "h">>,
    <<"S", "t", "a", "r", "t", " ", "T", "C">>,
    <<"S", "M", "P", "T", "E", " ", "i", "n">>,
    <<"S", "c", "e", "n", "e">>,
    <<"T", "i", "m", "e", "s", "t", "a", "m", "p">> }

HeaderLists == SeqsOf(HeaderNames, 1, MaxRows + 1)

\* 'time,name,note'
LabelHeader == <<"t", "i", "m", "e", ",", "n", "a", "m", "e", ",", "n", "o", "t", "e">>

ColNote == <<"n", "o", "t", "e">>
\* a column name that is no header of the CSV
ColScene == <<"s", "c", "e", "n", "e">>

\* rows with filled, empty and missing label cells
LabelRows ==
  { <<"1", ",", "I", "n", "t", "r", "o", ",", "t", "a", "k", "e", " ", "1">>,
    <<"2", ",", ",", "t", "a", "k", "e", " ", "2">>,
    <<"3", ",", "V", "e", "r", "s", "e", ",">>,
    <<"4", ",", ",">>,
    <<"5">>,
    <<"6", ",", "\"", " ", "\"", ",", "x">> }

LabelCSVs ==
  { Join(<<LabelHeader>> \o rows, <<"\n">>) :
      rows \in SeqsOf(LabelRows, 0, MaxRows) }

\* the label columns a caller may select, in the order selected
FieldSelections == SeqsOf({ColName, ColNote, ColScene}, 0, 2)

\* rows whose times lie in different hours, one of them negative, one
\* unusable
HourRows ==
  { <<"0", "1", ":", "0", "5", ":", "3", "0", ":", "0", "0", ",", "A">>,
    <<"0", ":", "5", "9", ":", "5", "9", ",", "B">>,
    <<"2", ":", "0", "0", ":", "0", "0", ",", "C">>,
    <<"1", "0", "0", ":", "0", "0", ":", "0", "0", ",", "L", "o", "n", "g">>,
    <<"-", "5", ",", "N", "e", "g">>,
    <<"a", "b", "c", ",", "B", "a", "d">> }

HourCSVs ==
  { Join(<<Header>> \o rows, <<"\n">>) :
      rows \in SeqsOf(HourRows, 0, MaxRows) }

\* the lines given to parseCSVLine: quotes, commas, white space and a
\* letter in every arrangement
LineTexts == SeqsOf({"a", ",", "\"", " "}, 0, MaxLine)

\* header lines with distinct and with equal column names
TableHeaders == { <<"a">>, <<"a", ",", "b">>, <<"a", ",", "a">> }

\* lines with fewer fields than headers, as many, and more; blank lines
\* and a line of quotes only
TableRows ==
  { <<"1">>, <<"1", ",", "2">>, <<"1", ",", "2", ",", "3">>, <<>>, <<" ">>,
    <<"\"", "\"">> }

TableCSVs ==
  { Join(<<header>> \o rows, <<"\n">>) :
      header \in TableHeaders, rows \in SeqsOf(TableRows, 0, MaxRows + 1) }

\* the frame rate choice 'auto' of the desktop page
Auto == <<"a", "u", "t", "o">>

ColTimecode == <<"T", "i", "m", "e", "c", "o", "d", "e">>
ColFrame == <<"F", "r", "a", "m", "e">>

\* timecodes with frames below 24, between 25 and 30, and above 30
AutoCells ==
  { <<"0", "0", ":", "0", "0", ":", "0", "0", ":", "1", "2">>,
    <<"0", "0", ":", "0", "0", ":", "0", "1", ":", "2", "9">>,
    <<"0", "0", ":", "0", "0", ":", "0", "3", ":", "4", "5">> }

\* a line of a file with a timecode column and a frame count column, the
\* timecode column first or, as in the README's example with several
\* timecode columns, second
AutoLine(timecodeFirst, timecode, frame) ==
  IF timecodeFirst THEN timecode \o <<",">> \o frame
  ELSE frame \o <<",">> \o timecode

\* the files given to 'analyze-csv'; a call names a file that can be read
\* or one that cannot
AutoCSVs ==
  { Join(<<AutoLine(first, ColTimecode, ColFrame)>>
         \o [i \in DOMAIN cells |-> AutoLine(first, cells[i], <<"1", "3">>)],
         <<"\n">>) :
      first \in BOOLEAN, cells \in SeqsOf(AutoCells, 1, MaxRows) }

LibCalls ==
  [fn : {"parseCSVLine"}, line : LineTexts]
  \cup
  [fn : {"analyze-csv"}, readable : BOOLEAN, csvContent : AutoCSVs,
   frameRate : {Auto, RateText}]
  \cup
  [fn : {"detectFrameRate"},
   csvContent : FrameTexts \cup BlankTexts \cup {ReadmeCSV}]
  \cup
  [fn : {"parseCSVWithHeaders"},
   csvContent : BlankTexts \cup TableCSVs
                \cup {Header, ReadmeCSV, SparseCSV}]
  \cup
  ParseTimeCalls
  \cup
  [fn : {"detectTimeColumn"}, headers : HeaderLists]
  \cup
  [fn : {"parseCSVWithSelectedFields"},
   csvContent : LabelCSVs, frameRate : {Whole(30)},
   timeColumn : {ColTime}, selectedFields : FieldSelections]
  \cup
  [fn : {"parseCSVWithSelectedFields"},
   csvContent : HourCSVs, frameRate : {Whole(30)},
   timeColumn : {ColTime}, selectedFields : {<<ColName>>}]

LibInit ==
  /\ call \in LibCalls
  /\ ret = NONE
  /\ ProgIdle
  /\ HandlersIdle
  /\ OverlapIdle

\* main.js 'analyze-csv': the frame rate is detected or taken as given,
\* the headers and the first five rows are returned; a file that cannot be
\* read is reported
AnalyzeCsv ==
  /\ call.fn = "analyze-csv"
  /\ ret = NONE
  /\ ret' =
       IF ~call.readable
       THEN [success |-> FALSE, message |-> "Error: ENOENT"]
       ELSE LET detectedFrameRate ==
                  IF call.frameRate = Auto
                  THEN detectFrameRate(call.csvContent)
                  ELSE parseFloat(call.frameRate)
                parsed == parseCSVWithHeaders(call.csvContent)
            IN  IF IsThrown(parsed)
                THEN [success |-> FALSE, message |-> parsed.error]
                ELSE [success   |-> TRUE,
                      headers   |-> parsed.headers,
                      rows      |-> SubSeq(parsed.rows, 1,
                                           Min(5, Len(parsed.rows))),
                      frameRate |-> detectedFrameRate]
  /\ UNCHANGED <<call, progVars, handlerVars, overlapVars>>

CallParseCSVLine ==
  /\ call.fn = "parseCSVLine"
  /\ ret = NONE
  /\ ret' = [values |-> parseCSVLine(call.line)]
  /\ UNCHANGED <<call, progVars, handlerVars, overlapVars>>

CallDetectFrameRate ==
  /\ call.fn = "detectFrameRate"
  /\ ret = NONE
  /\ ret' = detectFrameRate(call.csvContent)
  /\ UNCHANGED <<call, progVars, handlerVars, overlapVars>>

CallParseCSVWithHeaders ==
  /\ call.fn = "parseCSVWithHeaders"
  /\ ret = NONE
  /\ ret' = parseCSVWithHeaders(call.csvContent)
  /\ UNCHANGED <<call, progVars, handlerVars, overlapVars>>

CallParseTime ==
  /\ call.fn = "parseTime"
  /\ ret = NONE
  /\ ret' = parseTime(call.timeStr, call.frameRate)
  /\ UNCHANGED <<call, progVars, handlerVars, overlapVars>>

CallDetectTimeColumn ==
  /\ call.fn = "detectTimeColumn"
  /\ ret = NONE
  /\ ret' = detectTimeColumn(call.headers)
  /\ UNCHANGED <<call, progVars, handlerVars, overlapVars>>

CallParseCSVWithSelectedFields ==
  /\ call.fn = "parseCSVWithSelectedFields"
  /\ ret = NONE
  /\ ret' = parseCSVWithSelectedFields(call.csvContent, call.frameRate,
                                       call.timeColumn, call.selectedFields)
  /\ UNCHANGED <<call, progVars, handlerVars, overlapVars>>

LibNext ==
  \/ AnalyzeCsv
  \/ CallParseCSVLine
  \/ CallDetectFrameRate
  \/ CallParseCSVWithHeaders
  \/ CallParseTime
  \/ CallDetectTimeColumn
  \/ CallParseCSVWithSelectedFields

LibSpec == LibInit /\ [][LibNext]_vars

----------------------------------------------------------------------------
(* The web page's file selection and its requests to POST                  *)
(* /api/analyze-csv (page.tsx handleFileSelect, analyzeCSV, toggleField;   *)
(* the analyze-csv route): a request is in flight from the fetch to the    *)
(* arrival of its response, and responses arrive in any order              *)

\* how many files the user selects
MaxSelects == 2

\* 'Frame,Timecode' and one row, laid out as the README's example
ComplexCSV ==
  <<"F", "r", "a", "m", "e", ",", "T", "i", "m", "e", "c", "o", "d", "e",
    "\n", "1", "3", ",", "0", "0", ":", "0", "0", ":", "0", "3", ":",
    "4", "5">>

\* the files the user selects or drops
PageFiles == {ReadmeCSV, ComplexCSV, Header}

\* POST /api/analyze-csv: the body of the response for a file
AnalyzeRoute(file, frameRateParam) ==
  IF file = NONE THEN [success |-> FALSE, message |-> "No file provided"]
  ELSE LET detectedFrameRate ==
             IF frameRateParam = Auto THEN detectFrameRate(file)
             ELSE parseFloat(frameRateParam)
           parsed == parseCSVWithHeaders(file)
       IN  IF IsThrown(parsed)
           THEN [success |-> FALSE, message |-> parsed.error]
           ELSE [success            |-> TRUE,
                 headers            |-> parsed.headers,
                 rows               |-> SubSeq(parsed.rows, 1,
                                               Min(5, Len(parsed.rows))),
                 frameRate          |-> detectedFrameRate,
                 detectedTimeColumn |-> detectTimeColumn(parsed.headers)]

\* the page as it is first rendered, no request sent
PageInit ==
  /\ page = [file           |-> NONE,
             frameRate      |-> Auto,
             csvData        |-> NONE,
             timeColumn     |-> <<>>,
             selectedFields |-> <<>>,
             isAnalyzing    |-> FALSE,
             error          |-> ""]
  /\ analyses = [sent |-> 0, pending |-> {}]
  /\ invocations = NONE
  /\ form = NONE
  /\ response = NONE
  /\ ipcResult = NONE
  /\ disk = [wav |-> NONE, script |-> NONE]
  /\ automation = "idle"
  /\ ProgIdle
  /\ LibIdle

\* handleFileSelect and analyzeCSV up to the fetch: the state of the last
\* file is cleared, isAnalyzing is set and the request is sent
handleFileSelect ==
  /\ analyses.sent < MaxSelects
  /\ \E selectedFile \in PageFiles :
       /\ page' = [page EXCEPT !.file = selectedFile,
                               !.error = "",
                               !.csvData = NONE,
                               !.timeColumn = <<>>,
                               !.selectedFields = <<>>,
                               !.isAnalyzing = TRUE]
       /\ analyses' = [sent    |-> analyses.sent + 1,
                       pending |-> analyses.pending \cup
                                     {[id        |-> analyses.sent + 1,
                                       file      |-> selectedFile,
                                       frameRate |-> page.frameRate]}]
  /\ UNCHANGED <<progVars, form, response, ipcResult, disk, automation,
                 libVars, invocations>>

\* analyzeCSV from the fetch on, for any request in flight: the fetch fails
\* and the catch sets the error, or the response is taken; finally
\* isAnalyzing is reset
analyzeCSV ==
  /\ \E request \in analyses.pending, fetched \in BOOLEAN :
       /\ LET data == AnalyzeRoute(request.file, request.frameRate)
          IN  page' =
                IF ~fetched
                THEN [page EXCEPT !.error = "Failed to analyze CSV file",
                                  !.isAnalyzing = FALSE]
                ELSE IF data.success /\ Len(data.headers) > 0
                THEN [page EXCEPT !.csvData = data,
                                  !.timeColumn =
                                     IF FalsyValue(data.detectedTimeColumn)
                                     THEN data.headers[1]
                                     ELSE data.detectedTimeColumn,
                                  !.selectedFields = <<>>,
                                  !.isAnalyzing = FALSE]
                ELSE [page EXCEPT !.error = "Failed to analyze CSV",
                                  !.isAnalyzing = FALSE]
       /\ analyses' = [analyses EXCEPT !.pending = @ \ {request}]
  /\ UNCHANGED <<progVars, form, response, ipcResult, disk, automation,
                 libVars, invocations>>

\* toggleField: a field of the displayed analysis is added to the selected
\* fields or taken out of them
toggleField ==
  /\ page.csvData # NONE
  /\ \E k \in DOMAIN page.csvData.headers :
       LET field == page.csvData.headers[k]
           prev  == page.selectedFields
       IN  page' = [page EXCEPT !.selectedFields =
                      IF \E i \in DOMAIN prev : prev[i] = field
                      THEN SelectSeq(prev, LAMBDA f : f # field)
                      ELSE Append(prev, field)]
  /\ UNCHANGED <<progVars, form, response, ipcResult, disk, automation,
                 libVars, overlapVars>>

PageNext ==
  \/ handleFileSelect
  \/ analyzeCSV
  \/ toggleField

PageSpec == PageInit /\ [][PageNext]_vars

----------------------------------------------------------------------------
(* Overlapping invocations of the desktop 'generate-wav' handler           *)
(* (main.js): an invocation waits at the save dialog, and its osascript    *)
(* child runs on after the handler has returned; every invocation uses the *)
(* one temporary script file os.tmpdir()/cuesynch-import.applescript       *)

\* how many invocations there are
MaxInvocations == 2

Invocations == 1..MaxInvocations

\* 'time,name' and one row in the second hour
LateCSV ==
  <<"t", "i", "m", "e", ",", "n", "a", "m", "e", "\n", "0", "1", ":", "0",
    "5", ":", "3", "0", ":", "0", "0", ",", "A">>

\* the files the invocations are asked to read
OverlapFiles == {ReadmeCSV, LateCSV}

\* the path chosen in the save dialog; '' when it is cancelled
SavePaths == {"", "a.wav"}

\* the AppleScript an invocation builds: the text is fixed but for the start
\* timecode and the path of the WAV file
AppleScript(timecode, filePath) ==
  [startTimecode |-> timecode, fileName |-> filePath]

\* what osascript finds when the temporary script is gone
MissingScript == [missing |-> TRUE]

\* an invocation that has not been made
NotInvoked ==
  [pc |-> "idle", markers |-> <<>>, startTimecode |-> <<>>, filePath |-> "",
   result |-> NONE, executed |-> NONE]

OverlapInit ==
  /\ invocations = [i \in Invocations |-> NotInvoked]
  /\ disk = [wav |-> <<>>, script |-> NONE]
  /\ analyses = NONE
  /\ page = NONE
  /\ form = NONE
  /\ response = NONE
  /\ ipcResult = NONE
  /\ automation = "idle"
  /\ ProgIdle
  /\ LibIdle

\* 'generate-wav' up to the save dialog, for one invocation
InvokeGenerateWav ==
  /\ \E i \in Invocations, file \in OverlapFiles :
       /\ invocations[i].pc = "idle"
       /\ LET parsed == parseCSVWithSelectedFields(file, Whole(30), ColTime,
                                                   <<ColName>>)
          IN  invocations' =
                [invocations EXCEPT ![i].pc = "dialog",
                                    ![i].markers = parsed.markers,
                                    ![i].startTimecode = parsed.startTimecode]
  /\ UNCHANGED <<progVars, handlerVars, libVars, analyses>>

\* the rest of the handler once the save dialog of an invocation is closed:
\* without a path the invocation is cancelled; with one the WAV file is
\* written, the AppleScript is written to the temporary file and osascript
\* is started (or the write fails and is logged), and success is returned
ResumeAfterDialog ==
  /\ \E i \in Invocations, filePath \in SavePaths, scriptWritten \in BOOLEAN :
       /\ invocations[i].pc = "dialog"
       /\ IF filePath = ""
          THEN /\ invocations' =
                    [invocations EXCEPT
                       ![i].pc = "done",
                       ![i].result = [success |-> FALSE,
                                      message |-> "Save cancelled"]]
               /\ UNCHANGED <<disk, clock>>
          ELSE LET wav == generateWavWithMarkers(invocations[i].markers,
                                                 ClockReadings[clock])
               IN  IF wav = RangeError
                   THEN /\ invocations' =
                             [invocations EXCEPT
                                ![i].pc = "done",
                                ![i].result = [success |-> FALSE,
                                               message |-> "Error: RangeError"]]
                        /\ UNCHANGED <<disk, clock>>
                   ELSE /\ disk' =
                             [wav    |-> (filePath :> wav) @@ disk.wav,
                              script |-> IF scriptWritten
                                         THEN AppleScript(
                                                invocations[i].startTimecode,
                                                filePath)
                                         ELSE disk.script]
                        /\ clock' = ClockAfter(clock)
                        /\ invocations' =
                             [invocations EXCEPT
                                ![i].pc = IF scriptWritten THEN "spawned"
                                          ELSE "done",
                                ![i].filePath = filePath,
                                ![i].result =
                                   [success |-> TRUE,
                                    message |->
                                      "Markers file created successfully"]]
  /\ UNCHANGED <<csvContent, frameRate, timeColumn, selectedFields, pc,
                 markers, startTimecode, desktopOut, webOut, page, form,
                 response, ipcResult, automation, libVars, analyses>>

\* the osascript child of an invocation opens the temporary script and runs
\* what it finds there
OsascriptReadsScript ==
  /\ \E i \in Invocations :
       /\ invocations[i].pc = "spawned"
       /\ invocations' =
            [invocations EXCEPT
               ![i].pc = "running",
               ![i].executed = IF disk.script = NONE THEN MissingScript
                               ELSE disk.script]
  /\ UNCHANGED <<progVars, handlerVars, libVars, analyses>>

\* the callback of exec for an invocation: the temporary script is unlinked
\* (a failure to unlink is logged), the outcome of osascript is logged
OsascriptExitedFor ==
  /\ \E i \in Invocations, unlinked \in BOOLEAN :
       /\ invocations[i].pc = "running"
       /\ disk' = IF unlinked THEN [disk EXCEPT !.script = NONE] ELSE disk
       /\ invocations' = [invocations EXCEPT ![i].pc = "exited"]
  /\ UNCHANGED <<progVars, page, form, response, ipcResult, automation,
                 libVars, analyses>>

OverlapNext ==
  \/ InvokeGenerateWav
  \/ ResumeAfterDialog
  \/ OsascriptReadsScript
  \/ OsascriptExitedFor

OverlapSpec == OverlapInit /\ [][OverlapNext]_vars

----------------------------------------------------------------------------
(* Reading a WAV byte stream back *)

\* readUInt32LE
U32(buf, off) ==
  ByteAt(buf, off) + 256 * ByteAt(buf, off + 1)
  + 65536 * ByteAt(buf, off + 2) + 16777216 * ByteAt(buf, off + 3)

BytesAt(buf, off, count) == [k \in 1..count |-> ByteAt(buf, off + k - 1)]

\* the chunks met from pos on, walking by the declared sizes, up to end
RECURSIVE Walk(_, _, _)
Walk(buf, pos, end) ==
  IF pos + 8 > end THEN <<>>
  ELSE LET size == U32(buf, pos + 4) IN
       <<[id |-> BytesAt(buf, pos, 4), size |-> size, start |-> pos + 8]>>
       \o Walk(buf, pos + 8 + size, end)

\* the chunks of a RIFF file, after its 12-byte header
Chunks(buf) == Walk(buf, 12, buf.len)

\* where the walk over the chunks stops
WalkEnd(buf) ==
  LET cs == Chunks(buf)
  IN  IF cs = <<>> THEN 12 ELSE cs[Len(cs)].start + cs[Len(cs)].size

ChunkIds(buf) == [k \in 1..Len(Chunks(buf)) |-> Chunks(buf)[k].id]

FiveChunkIds ==
  << Utf8Bytes(<<"f", "m", "t", " ">>), Utf8Bytes(<<"b", "e", "x", "t">>),
     Utf8Bytes(<<"d", "a", "t", "a">>), Utf8Bytes(<<"c", "u", "e", " ">>),
     Utf8Bytes(<<"L", "I", "S", "T">>) >>

\* the cue records of a file with the five chunks
CueCount(buf) == U32(buf, Chunks(buf)[4].start)

CueRecord(buf, k) ==
  LET rec == Chunks(buf)[4].start + 4 + 24 * (k - 1)
  IN  [id           |-> U32(buf, rec),
       position     |-> U32(buf, rec + 4),
       chunkId      |-> BytesAt(buf, rec + 8, 4),
       chunkStart   |-> U32(buf, rec + 12),
       blockStart   |-> U32(buf, rec + 16),
       sampleOffset |-> U32(buf, rec + 20)]

\* the sub-records of the LIST chunk, after its 4-byte list type
LablRecords(buf) ==
  LET list == Chunks(buf)[5]
  IN  Walk(buf, list.start + 4, list.start + list.size)

LablCueId(buf, rec) == U32(buf, rec.start)

\* the bytes after the cue ID of a labl sub-record, up to the first zero
\* byte
LablText(buf, rec) ==
  LET body == BytesAt(buf, rec.start + 4, rec.size - 4)
      stop == IF \E i \in 1..Len(body) : body[i] = 0
              THEN CHOOSE i \in 1..Len(body) :
                     body[i] = 0 /\ \A j \in 1..(i - 1) : body[j] # 0
              ELSE Len(body) + 1
  IN  SubSeq(body, 1, stop - 1)

\* the runs that wrote a file
Written(out) == {i \in 1..Len(out) : out[i] # RangeError}

IsAscii(s) == \A i \in 1..Len(s) : CodePoint[s[i]] < 128

----------------------------------------------------------------------------
(* Claims *)

\* C1: in every file the desktop encoder writes for n markers, the cue
\* count is n, the k-th cue record carries ID k and the position of the
\* k-th marker, and the k-th labl sub-record carries ID k and the padded
\* length of the k-th label; with no marker the LIST payload is the 4-byte
\* 'adtl' tag alone.
C1_CueIdsFollowListOrder ==
  \A r \in Written(desktopOut) :
    LET buf   == desktopOut[r]
        n     == Len(markers)
        labls == LablRecords(buf)
    IN  /\ ChunkIds(buf) = FiveChunkIds
        /\ CueCount(buf) = n
        /\ Chunks(buf)[4].size = 4 + 24 * n
        /\ \A k \in 1..n :
             /\ CueRecord(buf, k).id = k
             /\ CueRecord(buf, k).position
                  = FloorTimes(markers[k].time, sampleRate)
        /\ BytesAt(buf, Chunks(buf)[5].start, 4)
             = Utf8Bytes(<<"a", "d", "t", "l">>)
        /\ Len(labls) = n
        /\ \A k \in 1..n :
             /\ labls[k].id = Utf8Bytes(<<"l", "a", "b", "l">>)
             /\ LablCueId(buf, labls[k]) = k
             /\ labls[k].size
                  = 4 + ByteLength(markers[k].name) + 1
                      + ((ByteLength(markers[k].name) + 1) % 2)
        /\ (n = 0 => Chunks(buf)[5].size = 4)

\* a file written for two markers that the sort has put in another order
\* than their rows
C1_Witness ==
  /\ Written(desktopOut) # {}
  /\ Len(markers) = 2
  /\ markers # MarkersFrom(parseCSVWithHeaders(csvContent).rows, frameRate,
                           timeColumn, selectedFields)

\* C2 (as claimed): in every file the desktop encoder writes, each cue ID
\* i has exactly one labl sub-record, and the bytes after its cue ID up to
\* the null terminator are the UTF-8 encoding of marker i's label, for
\* ASCII and non-ASCII labels alike.
C2_LabelBytesAreUtf8 ==
  \A r \in Written(desktopOut) :
    LET buf   == desktopOut[r]
        labls == LablRecords(buf)
    IN  \A i \in 1..Len(markers) :
          /\ Cardinality({k \in 1..Len(labls) :
                            LablCueId(buf, labls[k]) = i}) = 1
          /\ \A k \in 1..Len(labls) :
               LablCueId(buf, labls[k]) = i
                 => LablText(buf, labls[k]) = Utf8Bytes(markers[i].name)

\* C3: every file the desktop encoder writes is 'RIFF', a size, 'WAVE' and
\* then exactly the chunks fmt, bext, data, cue, LIST, each header
\* declaring its payload's length (16, 602 and 4 + 24 n bytes for fmt,
\* bext and cue, the labl sub-records filling LIST exactly); the walk over
\* the declared sizes stops at the end of the file and the RIFF size is
\* the file length minus 8.
C3_ChunkLayout ==
  \A r \in Written(desktopOut) :
    LET buf == desktopOut[r]
        cs  == Chunks(buf)
    IN  /\ BytesAt(buf, 0, 4) = Utf8Bytes(<<"R", "I", "F", "F">>)
        /\ BytesAt(buf, 8, 4) = Utf8Bytes(<<"W", "A", "V", "E">>)
        /\ ChunkIds(buf) = FiveChunkIds
        /\ cs[1].size = 16
        /\ cs[2].size = 602
        /\ cs[4].size = 4 + 24 * Len(markers)
        /\ LET labls == LablRecords(buf)
           IN  /\ Len(labls) = Len(markers)
               /\ cs[5].start + cs[5].size
                    = IF labls = <<>> THEN cs[5].start + 4
                      ELSE labls[Len(labls)].start + labls[Len(labls)].size
        /\ WalkEnd(buf) = buf.len
        /\ U32(buf, 4) = buf.len - 8

\* a file written for at least one marker
C3_Witness ==
  /\ Written(desktopOut) # {}
  /\ Len(markers) > 0

\* the markers in the order of their rows, before the sort
RowOrderMarkers ==
  MarkersFrom(parseCSVWithHeaders(csvContent).rows, frameRate, timeColumn,
              selectedFields)

Rearrangements(n) ==
  {p \in [1..n -> 1..n] : \A i, j \in 1..n : i # j => p[i] # p[j]}

\* C4: the extracted markers are the row-order markers rearranged so that
\* offsets never decrease and markers of equal offset keep the order of
\* their rows; in every file the desktop encoder writes, the cue positions
\* never decrease in file order and the k-th cue and label are those of
\* the k-th marker.
C4_SortedAndStable ==
  pc = "extracted" =>
    LET n == Len(RowOrderMarkers) IN
    /\ Len(markers) = n
    /\ \E p \in Rearrangements(n) :
         /\ \A k \in 1..n : markers[k] = RowOrderMarkers[p[k]]
         /\ \A i, j \in 1..n :
              i < j => /\ ~NumLess(markers[j].time, markers[i].time)
                       /\ (markers[i].time = markers[j].time => p[i] < p[j])
    /\ \A r \in Written(desktopOut) :
         LET buf   == desktopOut[r]
             labls == LablRecords(buf)
         IN  /\ CueCount(buf) = n
             /\ Len(labls) = n
             /\ \A k \in 1..(n - 1) :
                  CueRecord(buf, k).position <= CueRecord(buf, k + 1).position
             /\ \A k \in 1..n :
                  /\ CueRecord(buf, k).position
                       = FloorTimes(markers[k].time, sampleRate)
                  /\ (IsAscii(markers[k].name)
                        => LablText(buf, labls[k])
                             = Utf8Bytes(markers[k].name))

\* a file written for two rows of equal offset and different labels
C4_Witness ==
  /\ Written(desktopOut) # {}
  /\ \E i, j \in 1..Len(markers) :
       /\ i < j
       /\ markers[i].time = markers[j].time
       /\ markers[i].name # markers[j].name

\* C5: in every file the desktop encoder writes, the cue record of a
\* marker with offset t >= 0 holds the same position P in its position and
\* sample-offset fields, with P / 44100 <= t < (P + 1) / 44100 (stated on
\* the whole and fractional seconds of t).
C5_CuePositionWithinOneSample ==
  \A r \in Written(desktopOut) :
    \A k \in 1..Len(markers) :
      LET t      == markers[k].time
          rec    == CueRecord(desktopOut[r], k)
          whole  == t.n \div t.d
          part   == t.n % t.d
          excess == rec.position - whole * 44100
      IN  t.n >= 0 =>
            /\ rec.sampleOffset = rec.position
            /\ excess * t.d <= part * 44100
            /\ part * 44100 < (excess + 1) * t.d

\* a file written for a marker whose offset is no whole number of samples
C5_Witness ==
  /\ Written(desktopOut) # {}
  /\ \E k \in 1..Len(markers) :
       /\ markers[k].time.n > 0
       /\ (((markers[k].time.n % markers[k].time.d) * 44100)
             % markers[k].time.d) # 0

\* C6: in every file the desktop encoder writes, the data chunk holds
\* zero bytes only and is seconds * 44100 * 2 * 2 bytes long, where
\* seconds is 10 for no marker and otherwise one more than the least whole
\* number not below the offset of the last marker.
C6_SilentDataChunk ==
  \A r \in Written(desktopOut) :
    LET buf     == desktopOut[r]
        data    == Chunks(buf)[3]
        n       == Len(markers)
        seconds == data.size \div (44100 * 2 * 2)
    IN  /\ data.id = Utf8Bytes(<<"d", "a", "t", "a">>)
        /\ data.size = seconds * 44100 * 2 * 2
        /\ \A i \in DOMAIN buf.at :
             i < data.start \/ i >= data.start + data.size
        /\ IF n = 0 THEN seconds = 10
           ELSE LET t == markers[n].time
                IN  /\ (seconds - 2) * t.d < t.n
                    /\ t.n <= (seconds - 1) * t.d

\* a file written for markers the last of which has a fractional offset
C6_Witness ==
  /\ Written(desktopOut) # {}
  /\ Len(markers) > 0
  /\ markers[Len(markers)].time.d # 1

\* the bytes of the file that hold OriginatorReference, OriginationDate
\* and OriginationTime: the bext payload starts at byte 44 of the file
TimestampBytes == (44 + 288)..(44 + 337)

SameOutsideTimestamps(a, b) ==
  /\ a.len = b.len
  /\ \A i \in (DOMAIN a.at \cup DOMAIN b.at) \ TimestampBytes :
       ByteAt(a, i) = ByteAt(b, i)

\* C7: two desktop encodings of the same markers both fail or agree in
\* length and in every byte outside the bext time stamp fields, and the
\* markers stay what the extraction returned.
C7_SameBytesOutsideTimestamps ==
  /\ \A r1, r2 \in 1..Len(desktopOut) :
       IF desktopOut[r1] = RangeError \/ desktopOut[r2] = RangeError
       THEN desktopOut[r1] = desktopOut[r2]
       ELSE SameOutsideTimestamps(desktopOut[r1], desktopOut[r2])
  /\ (pc = "extracted" => markers = SortByTime(RowOrderMarkers))

\* two files written at different clock readings for at least one marker
C7_Witness ==
  /\ Len(desktopOut) = 2
  /\ Written(desktopOut) = {1, 2}
  /\ desktopOut[1] # desktopOut[2]
  /\ Len(markers) > 0

\* the payload of the k-th chunk: its length and its non-zero bytes by
\* their place in the payload
Payload(buf, k) ==
  LET c == Chunks(buf)[k]
  IN  [size  |-> c.size,
       bytes |-> {<<i - c.start, buf.at[i]>> :
                    i \in {j \in DOMAIN buf.at :
                             j >= c.start /\ j < c.start + c.size}}]

\* C8 (as claimed): for the same markers the desktop and the web encoder
\* produce identical fmt, data, cue and LIST chunks, for ASCII and
\* non-ASCII labels alike.
C8_DesktopAndWebChunksAgree ==
  \A r \in Written(desktopOut) :
    \A w \in Written(webOut) :
      \A k \in {1, 3, 4, 5} :
        Payload(desktopOut[r], k) = Payload(webOut[w], k)

\* C9: the README example at 30 fps with time column 'time' and label
\* column 'name' yields the offsets 0, 10.5, 90, 105.5 with the labels
\* Intro, Verse 1, Chorus, Bridge; the desktop encoder writes a file for
\* it whose data chunk covers 107 seconds, whose cue count is 4 and whose
\* cue positions are 0, 463050, 3969000, 4652550.
C9_ReadmeExample ==
  (/\ csvContent = ReadmeCSV
   /\ frameRate = [n |-> 30, d |-> 1]
   /\ timeColumn = ColTime
   /\ selectedFields = <<ColName>>
   /\ pc = "extracted")
  =>
    /\ markers =
         << [time |-> [n |-> 0, d |-> 1],
             name |-> <<"I", "n", "t", "r", "o">>],
            [time |-> [n |-> 21, d |-> 2],
             name |-> <<"V", "e", "r", "s", "e", " ", "1">>],
            [time |-> [n |-> 90, d |-> 1],
             name |-> <<"C", "h", "o", "r", "u", "s">>],
            [time |-> [n |-> 211, d |-> 2],
             name |-> <<"B", "r", "i", "d", "g", "e">>] >>
    /\ \A r \in 1..Len(desktopOut) :
         /\ desktopOut[r] # RangeError
         /\ Chunks(desktopOut[r])[3].size = 107 * 44100 * 2 * 2
         /\ CueCount(desktopOut[r]) = 4
         /\ [k \in 1..4 |-> CueRecord(desktopOut[r], k).position]
              = <<0, 463050, 3969000, 4652550>>

\* the README example extracted at 30 fps and encoded
C9_Witness ==
  /\ csvContent = ReadmeCSV
  /\ frameRate = [n |-> 30, d |-> 1]
  /\ timeColumn = ColTime
  /\ pc = "extracted"
  /\ Len(desktopOut) > 0

\* the rows whose time cell is present, not empty and parseable
UsableRows ==
  LET rows == parseCSVWithHeaders(csvContent).rows
  IN  {i \in 1..Len(rows) :
         /\ timeColumn \in DOMAIN rows[i]
         /\ rows[i][timeColumn] # <<>>
         /\ parseTime(rows[i][timeColumn], frameRate) # NULL}

----------------------------------------------------------------------------
(* C11, C12, C13: the generate handlers *)

\* C11: when the extraction finds no marker, the web route answers with a
\* failure and a message, and the desktop handler writes no WAV file and
\* does not resolve to success.
C11_NoMarkerFailsWithoutOutput ==
  /\ (response # NONE /\ markers = <<>>) =>
       /\ response.status # 200
       /\ response.message # ""
  /\ (pc \in {"dialog", "written", "returned"} /\ markers = <<>>) =>
       /\ disk.wav = NONE
       /\ ipcResult # NONE => ~ipcResult.success

\* C12: once the WAV file is written the desktop handler resolves to
\* success whether the script could be written or not and whether
\* osascript fails or not; the result stays as it is and the WAV file
\* stays as it was written.
C12_AutomationOutcomeIsNotTheResult ==
  /\ [](pc = "returned" => ipcResult # NONE /\ ipcResult.success)
  /\ [](automation # "idle" => ipcResult # NONE /\ ipcResult.success)
  /\ [][pc = "written" => ipcResult'.success]_vars
  /\ [][ipcResult # NONE => ipcResult' = ipcResult]_vars
  /\ [][disk.wav # NONE => disk'.wav = disk.wav]_vars

\* the automation has failed after the WAV file was written, and the
\* handler has resolved to success
C12_Witness ==
  /\ pc = "returned"
  /\ automation = "failed"
  /\ disk.wav # NONE
  /\ ipcResult # NONE /\ ipcResult.success

\* a form value is absent, empty, or (for the label columns) the JSON text
\* of an empty list
UnspecifiedValue(value) == FalsyValue(value) \/ value = <<"[", "]">>

\* C13: a request whose time column or label column selection is absent,
\* empty or an empty list is answered with the missing-parameter failure
\* and nothing is extracted; the page shows an error and sends nothing.
C13_UnspecifiedColumnsAreRejected ==
  /\ (form # NONE /\ response # NONE
        /\ (FalsyValue(form.timeColumn)
              \/ UnspecifiedValue(form.selectedFields))) =>
       /\ response = [status  |-> 400,
                      message |-> "Missing required parameters"]
       /\ markers = <<>>
  /\ (page # NONE /\ pc # "page"
        /\ (FalsyValue(page.timeColumn) \/ page.selectedFields = <<>>)) =>
       /\ page.error # ""
       /\ form = NONE
       /\ response = NONE

----------------------------------------------------------------------------
(* C14: the frame rate detector *)

\* the frame number a line carries, as a list of one number: its first
\* comma-separated field has four ':'-separated parts and the fourth begins
\* with an integer; the empty list for any other line
FrameOfLine(line) ==
  LET field == Trim(parseCSVLine(Trim(line))[1])
      parts == Split(field, ":")
  IN  IF Len(parts) = 4 /\ parseInt(parts[4]) # NaN
      THEN <<parseInt(parts[4]).n>> ELSE <<>>

LinesOf(text) == Split(Trim(text), "\n")

\* the frame numbers carried by the lines from the given one on
LineFrames(text, from) ==
  { FrameOfLine(LinesOf(text)[i])[1] :
      i \in { j \in from..Len(LinesOf(text)) :
                FrameOfLine(LinesOf(text)[j]) # <<>> } }

\* the first line counts as a header
FirstLineIsHeader(text) ==
  \/ IncludesString(toLowerCase(LinesOf(text)[1]), <<"t", "i", "m", "e">>)
  \/ IncludesString(toLowerCase(LinesOf(text)[1]), <<"n", "a", "m", "e">>)

SetMax(S) == CHOOSE m \in S : \A x \in S : x <= m

\* the frame rate a largest frame number stands for
BucketTable(m) ==
  CASE m < 24             -> 24
    [] m = 24             -> 25
    [] m >= 25 /\ m < 30  -> 30
    [] m >= 30 /\ m < 50  -> 50
    [] m >= 50            -> 60

DetectedRates == {Whole(24), Whole(25), Whole(30), Whole(50), Whole(60)}

\* C14 as stated: detectFrameRate returns one of 24, 25, 30, 50, 60; it
\* returns 30 when no line of the text carries a frame number and otherwise
\* the bucket of the largest frame number carried by any line.
C14_BucketOverEveryLine ==
  (call # NONE /\ call.fn = "detectFrameRate" /\ ret # NONE) =>
    /\ ret \in DetectedRates
    /\ LET frames == LineFrames(call.csvContent, 1)
       IN  IF frames = {} THEN ret = Whole(30)
           ELSE ret = Whole(BucketTable(SetMax(frames)))

\* C14 as amended: detectFrameRate returns one of 24, 25, 30, 50, 60; the
\* first line is left out when it contains 'time' or 'name' in any case;
\* it returns 30 when none of the other lines carries a frame number and
\* otherwise the bucket of the largest frame number those lines carry.
C14_BucketOverScannedLines ==
  (call # NONE /\ call.fn = "detectFrameRate" /\ ret # NONE) =>
    /\ ret \in DetectedRates
    /\ LET from   == IF FirstLineIsHeader(call.csvContent) THEN 2 ELSE 1
           frames == LineFrames(call.csvContent, from)
       IN  IF frames = {} THEN ret = Whole(30)
           ELSE ret = Whole(BucketTable(SetMax(frames)))

\* a text with a header and two frame numbers, the larger one being 24,
\* for which 25 was returned
C14_Witness ==
  /\ call # NONE /\ call.fn = "detectFrameRate" /\ ret = Whole(25)
  /\ FirstLineIsHeader(call.csvContent)
  /\ LineFrames(call.csvContent, 2) = {23, 24}

----------------------------------------------------------------------------
(* C15: the CSV reader on empty input *)

\* C15: parseCSVWithHeaders called on a text that is empty or white space
\* only throws 'CSV file is empty' and returns no headers and rows.
C15_EmptyInputIsRejected ==
  (call # NONE /\ call.fn = "parseCSVWithHeaders" /\ ret # NONE
     /\ Trim(call.csvContent) = <<>>)
  => ret = Thrown("CSV file is empty")

----------------------------------------------------------------------------
(* C16: the label of a marker *)

\* the positions in the selection whose column exists in the row and
\* holds more than white space
KeptPositions(row, fields) ==
  { i \in 1..Len(fields) :
      fields[i] \in DOMAIN row /\ Trim(row[fields[i]]) # <<>> }

\* the cells at the given positions, in order of position, with ' - '
\* between them
RECURSIVE CellsJoined(_, _, _)
CellsJoined(row, fields, positions) ==
  IF positions = {} THEN <<>>
  ELSE LET i    == CHOOSE k \in positions : \A j \in positions : k <= j
           rest == positions \ {i}
       IN  row[fields[i]]
           \o (IF rest = {} THEN <<>>
               ELSE <<" ", "-", " ">> \o CellsJoined(row, fields, rest))

LabelOfRow(row, fields) ==
  IF KeptPositions(row, fields) = {} THEN <<"M", "a", "r", "k", "e", "r">>
  ELSE CellsJoined(row, fields, KeptPositions(row, fields))

\* the call is an extraction from a text of LabelCSVs that has returned
LabelCallDone ==
  /\ call # NONE /\ call.fn = "parseCSVWithSelectedFields" /\ ret # NONE
  /\ call.csvContent \in LabelCSVs

----------------------------------------------------------------------------
(* C17: the time column detector *)

\* time, timecode, tc, smpte, timestamp
NamedKeywords ==
  { <<"t", "i", "m", "e">>,
    <<"t", "i", "m", "e", "c", "o", "d", "e">>,
    <<"t", "c">>,
    <<"s", "m", "p", "t", "e">>,
    <<"t", "i", "m", "e", "s", "t", "a", "m", "p">> }

\* the positions of the headers that contain a keyword in any case
KeywordPositions(headers) ==
  { i \in 1..Len(headers) :
      \E w \in NamedKeywords : IncludesString(toLowerCase(headers[i]), w) }

\* C17: detectTimeColumn returns the first header that contains one of the
\* keywords in any case, the first header when none does, and always one
\* of the headers.
C17_FirstKeywordHeader ==
  (call # NONE /\ call.fn = "detectTimeColumn" /\ ret # NONE) =>
    LET headers == call.headers
        found   == KeywordPositions(headers)
    IN  /\ \E i \in 1..Len(headers) : ret = headers[i]
        /\ found = {} => ret = headers[1]
        /\ found # {} =>
             \E i \in found : /\ ret = headers[i]
                               /\ \A j \in found : i <= j

\* the first header has no keyword, the second and the third have one in
\* upper case, and the second was returned
C17_Witness ==
  /\ call # NONE /\ call.fn = "detectTimeColumn" /\ ret # NONE
  /\ call.headers = << <<"N", "a", "m", "e">>,
                       <<"S", "t", "a", "r", "t", " ", "T", "C">>,
                       <<"T", "I", "M", "E">> >>
  /\ ret = <<"S", "t", "a", "r", "t", " ", "T", "C">>

----------------------------------------------------------------------------
(* C18: the session start timecode *)

\* the call is an extraction that has returned
ExtractionDone ==
  call # NONE /\ call.fn = "parseCSVWithSelectedFields" /\ ret # NONE

DecimalDigits == <<"0", "1", "2", "3", "4", "5", "6", "7", "8", "9">>

\* an hour number written with two digits; a number that two digits cannot
\* hold is written in full
TwoDigits(h) ==
  IF h >= 0 /\ h <= 99
  THEN <<DecimalDigits[(h \div 10) + 1], DecimalDigits[(h % 10) + 1]>>
  ELSE StringOf(h)

\* the hour that contains the offset t
HourOf(t) ==
  CHOOSE h \in -1..100 :
    /\ ~NumLess(t, Whole(h * 3600))
    /\ NumLess(t, Whole((h + 1) * 3600))

----------------------------------------------------------------------------
(* C19, C20: the timecode parser *)

\* the call of parseTime has returned
ParseTimeDone == call # NONE /\ call.fn = "parseTime" /\ ret # NONE

\* the parts that are integers, and those that are decimal numbers
IntegerTokens == { <<"1">>, <<"0", "5">> }
DecimalTokens == IntegerTokens \cup { <<"1", ".", "5">> }

\* the number a decimal part denotes, as numerator and denominator
TokenValue(token) ==
  CASE token = <<"1">>           -> <<1, 1>>
    [] token = <<"0", "5">>      -> <<5, 1>>
    [] token = <<"1", ".", "5">> -> <<3, 2>>

\* C19: parseTime returns null for a text without ':' that is no decimal
\* number, for a four-part text with a part that is no integer, and for a
\* text of five or more parts.
C19_RejectsOutsideGrammar ==
  ParseTimeDone =>
    LET parts == call.parts
        n     == Len(parts)
    IN  /\ (n = 1 /\ parts[1] \notin DecimalTokens) => ret = NULL
        /\ (n = 4 /\ \E i \in 1..4 : parts[i] \notin IntegerTokens)
             => ret = NULL
        /\ n >= 5 => ret = NULL

\* the parts form a well-formed MM:SS, HH:MM:SS or HH:MM:SS:FF text
WellFormed(parts) ==
  \/ /\ Len(parts) = 2
     /\ parts[1] \in IntegerTokens /\ parts[2] \in DecimalTokens
  \/ /\ Len(parts) = 3
     /\ parts[1] \in IntegerTokens /\ parts[2] \in IntegerTokens
     /\ parts[3] \in DecimalTokens
  \/ /\ Len(parts) = 4
     /\ \A i \in 1..4 : parts[i] \in IntegerTokens

\* hours, minutes, seconds and frames of well-formed parts; what a text
\* does not have is 0
FieldsOf(parts) ==
  LET n == Len(parts)
      v(i) == TokenValue(parts[i])
  IN  [hours   |-> IF n = 2 THEN 0 ELSE v(1)[1],
       minutes |-> IF n = 2 THEN v(1)[1] ELSE v(2)[1],
       seconds |-> IF n = 2 THEN v(2) ELSE v(3),
       frames  |-> IF n = 4 THEN v(4)[1] ELSE 0]

\* C20: for a well-formed text, with or without white space around it,
\* parseTime returns hours*3600 + minutes*60 + seconds + frames/frameRate
\* (no hours in MM:SS, no frames in MM:SS and HH:MM:SS).
C20_WellFormedValue ==
  (ParseTimeDone /\ WellFormed(call.parts)) =>
    LET f    == FieldsOf(call.parts)
        rate == call.frameRate
        sn   == f.seconds[1]
        sd   == f.seconds[2]
        \* the sum as one fraction num / den
        num  == (f.hours * 3600 + f.minutes * 60) * sd * rate.n
                + sn * rate.n + f.frames * rate.d * sd
        den  == sd * rate.n
    IN  /\ ret # NULL
        /\ ret.n * den = num * ret.d

\* ' 1:05:1:05' followed by a tab at 24 frames per second gave
\* 3901 + 5/24 seconds
C20_Witness ==
  /\ ParseTimeDone
  /\ call.parts = << <<"1">>, <<"0", "5">>, <<"1">>, <<"0", "5">> >>
  /\ call.padded
  /\ call.frameRate = Whole(24)
  /\ ret = [n |-> 93629, d |-> 24]

----------------------------------------------------------------------------
(* C21: the offsets of the extracted markers *)

\* C21: every marker the extraction returns has a finite offset that is
\* not negative; a time cell denoting a negative time yields no marker.
C21_OffsetsAreFiniteAndNotNegative ==
  pc = "extracted" =>
    \A k \in 1..Len(markers) :
      /\ ~isNaN(markers[k].time)
      /\ ~NumLess(markers[k].time, Whole(0))

----------------------------------------------------------------------------
(* C22, C23: splitting one line into fields *)

ParseCSVLineDone == call # NONE /\ call.fn = "parseCSVLine" /\ ret # NONE

\* the number of '"' characters among the first n characters of a line
QuotesBefore(line, n) == Cardinality({j \in 1..n : line[j] = "\""})

\* how often the character c occurs in the text s
Occurrences(s, c) == Cardinality({j \in 1..Len(s) : s[j] = c})

\* the positions of the commas that have an even number of '"' before them
Separators(line) ==
  {i \in 1..Len(line) : line[i] = "," /\ QuotesBefore(line, i - 1) % 2 = 0}

\* the k-th of a set of positions, in increasing order
NthOf(S, k) == CHOOSE i \in S : Cardinality({j \in S : j < i}) = k - 1

\* the characters of the line between the (k-1)-th and the k-th separator
Segment(line, k) ==
  LET seps  == Separators(line)
      first == IF k = 1 THEN 1 ELSE NthOf(seps, k - 1) + 1
      last  == IF k > Cardinality(seps) THEN Len(line)
               ELSE NthOf(seps, k) - 1
  IN  SubSeq(line, first, last)

\* a text without its '"' characters
RECURSIVE WithoutQuotes(_)
WithoutQuotes(s) ==
  IF s = <<>> THEN <<>>
  ELSE IF Head(s) = "\"" THEN WithoutQuotes(Tail(s))
  ELSE <<Head(s)>> \o WithoutQuotes(Tail(s))

\* C22 as claimed: the '"' characters of the line are kept in the fields
\* returned: every field is its part of the line, trimmed, with the '"'
\* characters in it.
C22_QuotesAreKept ==
  ParseCSVLineDone =>
    \A k \in 1..Len(ret.values) :
      ret.values[k] = Trim(Segment(call.line, k))

\* C22 as amended: a '"' only toggles the inside-quotes flag and is left
\* out of the fields: every field is its part of the line without the '"'
\* characters (two in a row stand for nothing), trimmed.
C22_QuotesAreDropped ==
  ParseCSVLineDone =>
    \A k \in 1..Len(ret.values) :
      /\ Occurrences(ret.values[k], "\"") = 0
      /\ ret.values[k] = Trim(WithoutQuotes(Segment(call.line, k)))

C22_Witness ==
  /\ ParseCSVLineDone
  /\ call.line = <<"\"", "a", ",", "\"", "\"">>
  /\ ret.values = << <<"a", ",">> >>

\* C23: a line is split at the commas that have an even number of '"'
\* before them and nowhere else: there is one field more than such commas,
\* a comma inside quotes stays in its field, and every field is trimmed.
C23_SplitAtUnquotedCommas ==
  ParseCSVLineDone =>
    /\ Len(ret.values) = Cardinality(Separators(call.line)) + 1
    /\ \A k \in 1..Len(ret.values) :
         LET field == ret.values[k]
         IN  /\ Occurrences(field, ",")
                  = Occurrences(Segment(call.line, k), ",")
             /\ field = <<>> \/ (~IsSpace(field[1])
                                 /\ ~IsSpace(field[Len(field)]))

C23_Witness ==
  /\ ParseCSVLineDone
  /\ call.line = <<"\"", ",", "\"", ",", " ">>
  /\ ret.values = << <<",">>, <<>> >>

----------------------------------------------------------------------------
(* C24: the rows of a CSV text *)

ParseCSVWithHeadersDone ==
  call # NONE /\ call.fn = "parseCSVWithHeaders" /\ ret # NONE

\* the lines of the trimmed text
TextLines(text) == Split(Trim(text), "\n")

\* the positions of the lines after the first that are not blank
NonBlankLines(text) ==
  {i \in 2..Len(TextLines(text)) : Trim(TextLines(text)[i]) # <<>>}

\* the fields of the k-th non-blank line after the header line
FieldsOfRow(text, k) ==
  parseCSVLine(Trim(TextLines(text)[NthOf(NonBlankLines(text), k)]))

\* the field a row holds for the header at position i
CellAt(fields, i) == IF i <= Len(fields) THEN fields[i] ELSE <<>>

\* C24 as claimed: one row per non-blank line after the header line, in
\* line order; each row maps the i-th header to the i-th field of its line
\* and to '' beyond the line's last field; it has no other key.
C24_RowsArePositional ==
  (ParseCSVWithHeadersDone /\ ~IsThrown(ret)) =>
    /\ ret.headers = parseCSVLine(TextLines(call.csvContent)[1])
    /\ Len(ret.rows) = Cardinality(NonBlankLines(call.csvContent))
    /\ \A k \in 1..Len(ret.rows) :
         LET fields == FieldsOfRow(call.csvContent, k)
         IN  /\ DOMAIN ret.rows[k]
                  = {ret.headers[i] : i \in 1..Len(ret.headers)}
             /\ \A i \in 1..Len(ret.headers) :
                  ret.rows[k][ret.headers[i]] = CellAt(fields, i)

\* C24 as amended: the same, with a header that occurs more than once
\* mapped to the field at its last position.
C24_RowsArePositionalLastWins ==
  (ParseCSVWithHeadersDone /\ ~IsThrown(ret)) =>
    /\ ret.headers = parseCSVLine(TextLines(call.csvContent)[1])
    /\ Len(ret.rows) = Cardinality(NonBlankLines(call.csvContent))
    /\ \A k \in 1..Len(ret.rows) :
         LET fields == FieldsOfRow(call.csvContent, k)
         IN  /\ DOMAIN ret.rows[k]
                  = {ret.headers[i] : i \in 1..Len(ret.headers)}
             /\ \A i \in 1..Len(ret.headers) :
                  (\A j \in (i + 1)..Len(ret.headers) :
                     ret.headers[j] # ret.headers[i])
                  => ret.rows[k][ret.headers[i]] = CellAt(fields, i)

\* 'a,a' / '1,2,3' / ' ' / '1': two rows, the blank line gives none, the
\* third field is dropped, the missing field is ''
C24_Witness ==
  /\ ParseCSVWithHeadersDone
  /\ call.csvContent = <<"a", ",", "a", "\n", "1", ",", "2", ",", "3", "\n",
                         " ", "\n", "1">>
  /\ ret.headers = << <<"a">>, <<"a">> >>
  /\ Len(ret.rows) = 2
  /\ ret.rows[1][<<"a">>] = <<"2">>
  /\ ret.rows[2][<<"a">>] = <<>>

----------------------------------------------------------------------------
(* C25: the lengths of the labl sub-records *)

\* the value claimed for the size field of a label's sub-record
LablSizeOf(label) ==
  LET L == ByteLength(label)
      p == IF (L + 1) % 2 = 1 THEN 1 ELSE 0
  IN  4 + L + 1 + p

\* the bytes taken by the sub-records of the first n markers, each 8 bytes
\* longer than its size field
RECURSIVE LablBytesBefore(_)
LablBytesBefore(n) ==
  IF n = 0 THEN 0
  ELSE LablBytesBefore(n - 1) + 8 + LablSizeOf(markers[n].name)

\* C25: in every file the desktop encoder writes, the k-th labl sub-record
\* lies right behind the (k-1)-th, 8 bytes longer than its size field,
\* its size field is 4 + L + 1 + p for the k-th label and is even, and the
\* LIST payload is 4 bytes and these sub-records, an even length.
C25_LablPayloadsAreEven ==
  \A r \in Written(desktopOut) :
    LET buf  == desktopOut[r]
        list == Chunks(buf)[5]
    IN  /\ list.size = 4 + LablBytesBefore(Len(markers))
        /\ list.size % 2 = 0
        /\ list.start + list.size = buf.len
        /\ \A k \in 1..Len(markers) :
             LET at == list.start + 4 + LablBytesBefore(k - 1)
             IN  /\ BytesAt(buf, at, 4) = Utf8Bytes(<<"l", "a", "b", "l">>)
                 /\ U32(buf, at + 4) = LablSizeOf(markers[k].name)
                 /\ U32(buf, at + 4) % 2 = 0
                 /\ U32(buf, at + 8) = k

\* a file written for a label that takes the padding byte and one that
\* does not
C25_Witness ==
  /\ Len(markers) = 2
  /\ Written(desktopOut) # {}
  /\ ByteLength(markers[1].name) % 2 = 1
  /\ ByteLength(markers[2].name) % 2 = 0

----------------------------------------------------------------------------
(* C26: quantities that do not fit in 32 bits *)

\* the seconds of audio the data chunk is to hold
DataSeconds ==
  IF Len(markers) = 0 THEN 10 ELSE Ceil(markers[Len(markers)].time) + 1

\* the bytes of the RIFF payload outside the audio data: 'WAVE', the five
\* chunk headers and the fmt, bext, cue and LIST payloads
OtherBytes ==
  4 + (8 + 16) + (8 + 602) + 8 + (8 + 4 + 24 * Len(markers))
  + (8 + 4 + LablBytesBefore(Len(markers)))

\* floor(t * 44100) >= 2^32, that is t * 11025 >= 2^30
PositionTooWide(t) ==
  LET q0   == 1073741824 \div 11025
      rem0 == 1073741824 % 11025
      q    == t.n \div t.d
      r    == t.n % t.d
  IN  q > q0 \/ (q = q0 /\ r * 11025 >= rem0 * t.d)

\* seconds * 176400 + extra >= 2^32 for 0 <= extra < 176400, that is
\* seconds * 11025 + extra / 16 >= 2^28
BytesTooWide(seconds, extra) ==
  LET q1   == 268435456 \div 11025
      rem1 == (268435456 % 11025) * 16
  IN  seconds > q1 \/ (seconds = q1 /\ extra >= rem1)

\* one of the 32-bit quantities of the file for the markers does not fit
Overflows ==
  \/ \E k \in 1..Len(markers) : PositionTooWide(markers[k].time)
  \/ BytesTooWide(DataSeconds, 0)
  \/ BytesTooWide(DataSeconds, OtherBytes)

\* the size fields and cue positions of a file are the quantities
\* themselves
FieldsAreExact(buf) ==
  /\ U32(buf, 4) = OtherBytes + DataSeconds * 176400
  /\ Chunks(buf)[3].size = DataSeconds * 176400
  /\ \A k \in 1..Len(markers) :
       LET t     == markers[k].time
           P     == CueRecord(buf, k).position
           whole == P \div 44100
           part  == P % 44100
           rest  == t.n - whole * t.d
       IN  /\ CueRecord(buf, k).sampleOffset = P
           /\ 0 <= rest /\ rest < t.d
           /\ part * t.d <= rest * 44100
           /\ rest * 44100 < (part + 1) * t.d

\* C26: when the RIFF size, the data length or a cue sample position of
\* the file for the markers does not fit in 32 bits, the encoder fails and
\* gives no bytes; the fields of every file it gives hold the quantities
\* themselves, none reduced modulo 2^32.
C26_NoFieldReducedModulo ==
  /\ \A r \in 1..Len(desktopOut) :
       /\ Overflows => desktopOut[r] = RangeError
       /\ desktopOut[r] # RangeError => FieldsAreExact(desktopOut[r])
  /\ \A r \in 1..Len(webOut) :
       /\ Overflows => webOut[r] = RangeError
       /\ webOut[r] # RangeError => FieldsAreExact(webOut[r])

\* the encoder has failed on markers at 0 and 25200 seconds, whose sample
\* positions fit and whose audio data would take 4445456400 bytes
C26_Witness ==
  /\ Len(markers) = 2
  /\ markers[1].time = Whole(0) /\ markers[2].time = Whole(25200)
  /\ ~PositionTooWide(markers[2].time)
  /\ BytesTooWide(DataSeconds, 0)
  /\ Len(desktopOut) > 0 /\ desktopOut[1] = RangeError

----------------------------------------------------------------------------
(* C27: cue positions and the length of the audio *)

\* the sample frames of the data chunk of a file: its bytes by the 4 bytes
\* of a frame of two 16-bit channels
SampleFrames(buf) == Chunks(buf)[3].size \div (numChannels * bytesPerSample)

\* C27: in every file an encoder gives for extracted markers, every cue
\* sample position (and sample offset) is less than the number of sample
\* frames of the data chunk.
C27_CuesLieWithinTheAudio ==
  /\ \A r \in Written(desktopOut) :
       \A k \in 1..CueCount(desktopOut[r]) :
         /\ CueRecord(desktopOut[r], k).position
              < SampleFrames(desktopOut[r])
         /\ CueRecord(desktopOut[r], k).sampleOffset
              < SampleFrames(desktopOut[r])
  /\ \A r \in Written(webOut) :
       \A k \in 1..CueCount(webOut[r]) :
         /\ CueRecord(webOut[r], k).position < SampleFrames(webOut[r])
         /\ CueRecord(webOut[r], k).sampleOffset < SampleFrames(webOut[r])

\* a file for two markers at different offsets, the later one a whole
\* number of seconds, so that its cue lies 44100 frames before the end
C27_Witness ==
  /\ Len(markers) = 2
  /\ NumLess(markers[1].time, markers[2].time)
  /\ Written(desktopOut) # {}
  /\ markers[2].time.d = 1
  /\ \E r \in Written(desktopOut) :
       /\ CueCount(desktopOut[r]) = 2
       /\ CueRecord(desktopOut[r], 2).position + 44100
            = SampleFrames(desktopOut[r])

----------------------------------------------------------------------------
(* C28: the detected frame rate and the chosen time column *)

\* 'analyze-csv' was called with the frame rate 'auto' and returned the
\* analysis of the file
AutoAnalysisDone ==
  /\ call # NONE /\ call.fn = "analyze-csv" /\ call.frameRate = Auto
  /\ ret # NONE /\ ret.success

\* the ':'-separated parts of a cell
TimecodeParts(cell) == Split(Trim(cell), ":")

\* the cell is an HH:MM:SS:FF timecode
IsFrameTimecode(cell) ==
  /\ Len(TimecodeParts(cell)) = 4
  /\ \A i \in 1..4 : parseInt(TimecodeParts(cell)[i]) # NaN

\* the frame value of an HH:MM:SS:FF timecode
FrameValue(cell) == parseInt(TimecodeParts(cell)[4]).n

\* the whole seconds of an HH:MM:SS:FF timecode
WholeSeconds(cell) ==
  parseInt(TimecodeParts(cell)[1]).n * 3600
  + parseInt(TimecodeParts(cell)[2]).n * 60
  + parseInt(TimecodeParts(cell)[3]).n

\* the cells of the column named header in the rows of the text
ColumnCells(text, header) ==
  LET rows == parseCSVWithHeaders(text).rows
  IN  { rows[i][header] : i \in DOMAIN rows }

\* the columns that hold HH:MM:SS:FF timecodes with frame values below 60
\* in every row: the columns this claim lets the user choose
FrameTimecodeColumns(text) ==
  LET headers == parseCSVWithHeaders(text).headers
  IN  { headers[i] : i \in
          { j \in DOMAIN headers :
              /\ ColumnCells(text, headers[j]) # {}
              /\ \A cell \in ColumnCells(text, headers[j]) :
                   IsFrameTimecode(cell) /\ FrameValue(cell) < 60 } }

\* C28: with the frame rate set to auto, for every column of the file that
\* holds HH:MM:SS:FF timecodes with frame values below 60 and may be chosen
\* as the time column, the frame rate 'analyze-csv' returns is greater than
\* every frame value of the column, and parseTime with that rate places each
\* cell less than one second after its whole seconds.
C28_DetectedRateExceedsFrames ==
  AutoAnalysisDone =>
    \A header \in FrameTimecodeColumns(call.csvContent) :
      \A cell \in ColumnCells(call.csvContent, header) :
        /\ NumLess(Whole(FrameValue(cell)), ret.frameRate)
        /\ NumLess(parseTime(cell, ret.frameRate),
                   Whole(WholeSeconds(cell) + 1))

----------------------------------------------------------------------------
(* C29: a second file selected while the first is being analysed *)

\* the analysis the page would show for the file it holds
AnalysisOfHeldFile == AnalyzeRoute(page.file, page.frameRate)

\* C29: once the user has selected a second file and every response has
\* arrived without an error displayed, the analysis displayed is that of
\* the file held in 'file': csvData is its analysis, the time column is its
\* detected time column and the selected fields are among its headers; and
\* isAnalyzing is false only when no analysis request is outstanding.
C29_LastSelectedFileIsDisplayed ==
  (analyses # NONE) =>
    /\ (analyses.sent >= 2 /\ analyses.pending = {} /\ page.error = "") =>
         /\ page.csvData = AnalysisOfHeldFile
         /\ page.timeColumn = AnalysisOfHeldFile.detectedTimeColumn
         /\ \A i \in DOMAIN page.selectedFields :
              \E k \in DOMAIN AnalysisOfHeldFile.headers :
                page.selectedFields[i] = AnalysisOfHeldFile.headers[k]
    /\ (~page.isAnalyzing) => analyses.pending = {}

----------------------------------------------------------------------------
(* C30: the temporary script of overlapping invocations *)

\* C30: the script the osascript child of an invocation runs is the
\* AppleScript that invocation wrote for its own WAV file: it has not been
\* overwritten by another invocation and has not been deleted by another
\* invocation's cleanup before it was read.
C30_EachRunExecutesItsOwnScript ==
  (invocations # NONE) =>
    \A i \in Invocations :
      (invocations[i].executed # NONE) =>
        invocations[i].executed =
          AppleScript(invocations[i].startTimecode, invocations[i].filePath)

=============================================================================
